---- MODULE Spec2Model ----
(***************************************************************************)
(* takeshape/use-cap: the token lifecycle (token.ts: getCapToken,          *)
(* solveOneAtATime, solve, startRefresh, cancelRefresh) and the worker     *)
(* pool dispatcher and client (api.ts: getChallenge, solveChallenges,      *)
(* redeemSolutions, the localStorage helpers), as one state machine over   *)
(* the JavaScript event loop: every action is one macrotask (a network     *)
(* response, a worker event, a timer, a call from the host) run together   *)
(* with the promise continuations it triggers; the user's callbacks are    *)
(* points at which the host may call back into the module. The unit solver *)
(* (worker.ts) is a second state machine, on the worker's own event loop.  *)
(***************************************************************************)
EXTENDS Integers, Sequences, FiniteSets, TLC

\* ------------------------------------------------------------ constants.ts
EXPIRES_BUFFER_IN_MS == 30000
ONE_DAY_IN_MS == 86400000
MAX_WORKERS_COUNT == 16
DEFAULT_WORKERS_COUNT == 8
WORKER_TIMEOUT_IN_MS == 30000
DEFAULT_CAP_TOKEN_LOCAL_STORAGE_KEY == "cap-token"

\* ------------------------------------------------------------------ bounds
\* getCapToken calls made by the host in one behaviour
MaxCalls == 3
\* solve attempts (started by a call or by a refresh timer) in one behaviour
MaxAttempts == 2
\* challenges the server hands out in one challenge set
MaxChallenges == 3
\* largest workersCount a caller of the main specification passes
MaxWorkers == 2
\* free passages of time (besides waiting for an armed timer)
MaxTicks == 1
\* challenges in the long challenge set of the progress specification
MaxTotal == 201
\* requests one worker is sent in one behaviour of the worker specification
MaxRequests == 3

\* ------------------------------------------------------------- environment
Keys == {DEFAULT_CAP_TOKEN_LOCAL_STORAGE_KEY, "other-key"}
\* what the redeem endpoint may put in expires, relative to the time it answers
ExpiryOffsets == {EXPIRES_BUFFER_IN_MS - 1, EXPIRES_BUFFER_IN_MS,
                  EXPIRES_BUFFER_IN_MS + 1}
TickSteps == {1}
\* the challenge sets: the first n challenges of 1, 2, 3, ...
ChallengeLists == {[i \in 1..n |-> i] : n \in 0..MaxChallenges}
\* the nonce a worker finds for a challenge
NonceFor(ch) == 100 + ch

None == <<>>
Some(x) == <<x>>
Min(a, b) == IF a <= b THEN a ELSE b
Max(a, b) == IF a >= b THEN a ELSE b
Range(s) == {s[i] : i \in DOMAIN s}

\* ------------------------------------------------------- JSON and storage
\* A JSON scalar: t is its type, s/n its string/number value.
JUndef == [t |-> "undef", s |-> "", n |-> 0]
JNull == [t |-> "null", s |-> "", n |-> 0]
JStr(x) == [t |-> "str", s |-> x, n |-> 0]
JNum(x) == [t |-> "num", s |-> "", n |-> x]
\* A JSON value: a scalar, an array, or an object with its token and expires
\* members (JUndef: the member is missing).
JScalar(x) == [t |-> x.t, s |-> x.s, n |-> x.n, token |-> JUndef, expires |-> JUndef]
JArr == [t |-> "arr", s |-> "", n |-> 0, token |-> JUndef, expires |-> JUndef]
JObj(tok, exp) == [t |-> "obj", s |-> "", n |-> 0, token |-> tok, expires |-> exp]
\* A localStorage item: none (getItem gives null), the empty string, a text
\* that is no JSON, or the JSON text of a value.
RawNone == [kind |-> "none", val |-> JScalar(JNull)]
RawEmpty == [kind |-> "empty", val |-> JScalar(JNull)]
RawGarbage == [kind |-> "garbage", val |-> JScalar(JNull)]
RawJson(v) == [kind |-> "json", val |-> v]

\* JSON.stringify of a CapToken
Stringify(token) == RawJson(JObj(JStr(token.token), JNum(token.expires)))

\* api.ts isTokenExpired
IsTokenExpiredStrict(token, t) == token.expires < t + EXPIRES_BUFFER_IN_MS
IsTokenExpired(token, t) == token.expires <= t + EXPIRES_BUFFER_IN_MS

\* api.ts isObject / isCapToken
IsObject(v) == v.t \in {"obj", "arr"}
IsCapToken(v) == IsObject(v) /\ v.token.t = "str" /\ v.expires.t = "num"

\* api.ts getLocalStorageItem: item read at time t; None is null
GetLocalStorageItemUnchecked(item, t) ==
  IF item.kind \in {"none", "empty"} THEN None
  ELSE IF item.kind = "garbage" THEN None
  ELSE LET capToken == item.val
           token == [token |-> capToken.token.s, expires |-> capToken.expires.n]
       IN IF capToken.expires.t = "num" /\ ~IsTokenExpired(token, t)
          THEN Some(token) ELSE None
GetLocalStorageItemInverted(item, t) ==
  IF item.kind \in {"none", "empty"} THEN None
  ELSE IF item.kind = "garbage" THEN None
  ELSE LET capToken == item.val
           token == [token |-> capToken.token.s, expires |-> capToken.expires.n]
       IN IF IsCapToken(capToken) /\ IsTokenExpired(token, t)
          THEN Some(token) ELSE None
GetLocalStorageItem(item, t) ==
  IF item.kind \in {"none", "empty"} THEN None
  ELSE IF item.kind = "garbage" THEN None
  ELSE LET capToken == item.val
           token == [token |-> capToken.token.s, expires |-> capToken.expires.n]
       IN IF IsCapToken(capToken) /\ ~IsTokenExpired(token, t)
          THEN Some(token) ELSE None

\* api.ts setLocalStorageItem / removeLocalStorageItem on the store st
SetLocalStorageItemDefaultKey(st, key, token) ==
  [st EXCEPT ![DEFAULT_CAP_TOKEN_LOCAL_STORAGE_KEY] = Stringify(token)]
SetLocalStorageItem(st, key, token) == [st EXCEPT ![key] = Stringify(token)]
RemoveLocalStorageItem(st, key) == [st EXCEPT ![key] = RawNone]


\* ------------------------------------------------------------------- state
VARIABLES
  now,              \* Date.now()
  ticks,            \* free passages of time taken so far
  storage,          \* localStorage: key -> item
  solving,          \* token.ts solving: key -> attempt (0: no entry)
  refreshTimeouts,  \* token.ts refreshTimeouts: key -> timer (0: no entry)
  timers,           \* the timers setTimeout made in startRefresh
  calls,            \* the getCapToken calls: context, promise and callbacks' log
  attempts,         \* the promises solveOneAtATime made, with their solve() state
  wk                \* worker.ts: one worker's module state and its requests

vars == <<now, ticks, storage, solving, refreshTimeouts, timers, calls, attempts, wk>>

\* The module state as one value, so that handlers compose as functions.
State == [now |-> now, storage |-> storage, solving |-> solving,
          refreshTimeouts |-> refreshTimeouts, timers |-> timers,
          calls |-> calls, attempts |-> attempts, wk |-> wk]

Becomes(S) ==
  /\ now' = S.now
  /\ storage' = S.storage
  /\ solving' = S.solving
  /\ refreshTimeouts' = S.refreshTimeouts
  /\ timers' = S.timers
  /\ calls' = S.calls
  /\ attempts' = S.attempts
  /\ wk' = S.wk

\* ---------------------------------------------------------------- callbacks
\* context.onError / onSolve / onProgress of the context of call c, invoked
\* while attempt a is being handled (a = 0: by getCapToken itself).
OnError(S, c, a, msg) ==
  [S EXCEPT !.calls[c].errors = Append(@, [msg |-> msg, att |-> a])]
OnSolve(S, c, a, token) ==
  [S EXCEPT !.calls[c].solved = Append(@, [token |-> token, at |-> S.now, att |-> a])]
OnProgress(S, c, a, p) ==
  [S EXCEPT !.calls[c].progress = Append(@, [p |-> p, att |-> a])]

\* ----------------------------------------------------------------- token.ts
\* startRefresh lines 70-74, cancelRefresh lines 142-146
ClearRefreshEntryOnly(S, key) ==
  LET timeout == S.refreshTimeouts[key] IN
  IF timeout # 0
  THEN [S EXCEPT !.refreshTimeouts[key] = 0]
  ELSE S
ClearRefreshKeepsEntry(S, key) ==
  LET timeout == S.refreshTimeouts[key] IN
  IF timeout # 0
  THEN [S EXCEPT !.timers[timeout].state = "cleared"]
  ELSE S
ClearRefresh(S, key) ==
  LET timeout == S.refreshTimeouts[key] IN
  IF timeout # 0
  THEN [S EXCEPT !.timers[timeout].state = "cleared", !.refreshTimeouts[key] = 0]
  ELSE S

\* token.ts startRefresh, for the context of call c, while handling attempt a
\* (a = 0: called by getCapToken); a delay below 0 is a timer due at once
StartRefresh(S, c, a, expires) ==
  LET key == S.calls[c].key
      S1 == ClearRefresh(S, key)
      expiresIn == expires - S.now
      delay == expiresIn - EXPIRES_BUFFER_IN_MS
  IN IF expiresIn > 0 /\ expiresIn < ONE_DAY_IN_MS
     THEN [S1 EXCEPT
             !.timers = Append(@, [key |-> key, ctx |-> c, by |-> a, delay |-> delay,
                                   due |-> S.now + Max(0, delay), state |-> "armed"]),
             !.refreshTimeouts[key] = Len(S1.timers) + 1]
     ELSE OnError(S1, c, a, "Invalid expiration time")

\* navigator.hardwareConcurrency (0: not provided by the host)
HardwareConcurrency == 4

\* token.ts solve, the workersCount default (wc: None when the caller gave none)
EffectiveWorkersCount(wc) ==
  IF wc = None
  THEN Min(IF HardwareConcurrency # 0 THEN HardwareConcurrency ELSE DEFAULT_WORKERS_COUNT,
           MAX_WORKERS_COUNT)
  ELSE wc[1]

\* the promise solveOneAtATime makes: solve(context) up to its first await
\* (getChallenge has issued the challenge fetch: one fetch per attempt)
NewAttempt(S, c, origin) ==
  [key |-> S.calls[c].key, ctx |-> c, origin |-> origin,
   phase |-> "challenge", cb |-> "none",
   redeems |-> 0, response |-> None,
   served |-> None, challengeSet |-> <<>>, challengeOk |-> None,
   workersCount |-> EffectiveWorkersCount(S.calls[c].workersCount),
   challenges |-> <<>>, i |-> 0, results |-> <<>>, completed |-> 0,
   workers |-> <<>>, made |-> <<>>, units |-> <<>>, posted |-> <<>>,
   broken |-> {}, tried |-> {}, logged |-> {}, reset |-> FALSE,
   completedOrder |-> <<>>,
   outcome |-> "pending", error |-> "", value |-> None, rejects |-> FALSE]

\* token.ts solveOneAtATime lines 92-117 for the context of call c
SolveOneAtATimeAlways(S, c, origin) ==
  LET key == S.calls[c].key IN
  [S EXCEPT !.attempts = Append(@, NewAttempt(S, c, origin)),
            !.solving[key] = Len(S.attempts) + 1]
SolveOneAtATimeAfterSettle(S, c, origin) ==
  LET key == S.calls[c].key IN
  IF S.solving[key] # 0 /\ S.attempts[S.solving[key]].phase \notin {"onSolve", "settling"}
  THEN S
  ELSE [S EXCEPT !.attempts = Append(@, NewAttempt(S, c, origin)),
                 !.solving[key] = Len(S.attempts) + 1]
SolveOneAtATime(S, c, origin) ==
  LET key == S.calls[c].key IN
  IF S.solving[key] # 0 THEN S
  ELSE [S EXCEPT !.attempts = Append(@, NewAttempt(S, c, origin)),
                 !.solving[key] = Len(S.attempts) + 1]

\* token.ts solveOneAtATime .catch (lines 107-112): the rejection of solve()
\* or of the .then handler, with the message in error, becomes undefined
CatchHandlerRearms(S, a) ==
  LET c == S.attempts[a].ctx
      S1 == OnError(S, c, a, S.attempts[a].error)
      S2 == IF S.attempts[a].origin = "refresh"
            THEN StartRefresh(S1, c, a, S.now + EXPIRES_BUFFER_IN_MS + 1)
            ELSE S1
  IN [S2 EXCEPT !.attempts[a].phase = "settling", !.attempts[a].cb = "onError",
                !.attempts[a].value = None]
CatchHandlerRethrows(S, a) ==
  LET S1 == OnError(S, S.attempts[a].ctx, a, S.attempts[a].error) IN
  [S1 EXCEPT !.attempts[a].phase = "settling", !.attempts[a].cb = "onError",
             !.attempts[a].value = None, !.attempts[a].rejects = TRUE]
CatchHandlerSilent(S, a) ==
  [S EXCEPT !.attempts[a].phase = "settling", !.attempts[a].cb = "none",
            !.attempts[a].value = None]
CatchHandler(S, a) ==
  LET S1 == OnError(S, S.attempts[a].ctx, a, S.attempts[a].error) IN
  [S1 EXCEPT !.attempts[a].phase = "settling", !.attempts[a].cb = "onError",
             !.attempts[a].value = None]

\* solve() of attempt a rejects with an Error of message msg
SolveRejects(S, a, msg) == CatchHandler([S EXCEPT !.attempts[a].error = msg], a)

\* token.ts solveOneAtATime .then (lines 95-100): persist, then onSolve
ThenHandlerAnyCaller(S, a, token) ==
  LET c == S.attempts[a].ctx
      S1 == IF \E d \in DOMAIN S.calls :
                  S.calls[d].att = a /\ S.calls[d].localStorageEnabled
            THEN [S EXCEPT !.storage = SetLocalStorageItem(@, S.attempts[a].key, token)]
            ELSE S
      S2 == OnSolve(S1, c, a, token)
  IN [S2 EXCEPT !.attempts[a].phase = "onSolve", !.attempts[a].cb = "onSolve",
                !.attempts[a].value = Some(token)]
ThenHandlerSkipsAfterReset(S, a, token) ==
  LET c == S.attempts[a].ctx
      S1 == IF S.calls[c].localStorageEnabled /\ ~S.attempts[a].reset
            THEN [S EXCEPT !.storage = SetLocalStorageItem(@, S.attempts[a].key, token)]
            ELSE S
      S2 == OnSolve(S1, c, a, token)
  IN [S2 EXCEPT !.attempts[a].phase = "onSolve", !.attempts[a].cb = "onSolve",
                !.attempts[a].value = Some(token)]
ThenHandlerNoPersist(S, a, token) ==
  LET c == S.attempts[a].ctx
      S2 == OnSolve(S, c, a, token)
  IN [S2 EXCEPT !.attempts[a].phase = "onSolve", !.attempts[a].cb = "onSolve",
                !.attempts[a].value = Some(token)]
ThenHandler(S, a, token) ==
  LET c == S.attempts[a].ctx
      S1 == IF S.calls[c].localStorageEnabled
            THEN [S EXCEPT !.storage = SetLocalStorageItem(@, S.attempts[a].key, token)]
            ELSE S
      S2 == OnSolve(S1, c, a, token)
  IN [S2 EXCEPT !.attempts[a].phase = "onSolve", !.attempts[a].cb = "onSolve",
                !.attempts[a].value = Some(token)]

\* token.ts solveOneAtATime .then (lines 101-105): after onSolve has returned
ThenHandlerRestNoRefresh(S, a) ==
  [S EXCEPT !.attempts[a].phase = "settling", !.attempts[a].cb = "none"]
ThenHandlerRest(S, a) ==
  LET c == S.attempts[a].ctx
      token == S.attempts[a].value[1]
      n == Len(S.calls[c].errors)
      S1 == IF S.calls[c].refreshAutomatically
            THEN StartRefresh(S, c, a, token.expires) ELSE S
  IN [S1 EXCEPT !.attempts[a].phase = "settling",
                !.attempts[a].cb = IF Len(S1.calls[c].errors) > n
                                   THEN "onError" ELSE "none"]

\* token.ts solveOneAtATime .finally (lines 113-116), and the callers that
\* hold the promise resolving
ResolveCalls(S, a) ==
  [S EXCEPT !.calls = [c \in DOMAIN @ |->
      IF @[c].att = a /\ @[c].status = "pending"
      THEN [@[c] EXCEPT !.status = IF S.attempts[a].rejects
                                   THEN "rejected" ELSE "resolved",
                        !.result = S.attempts[a].value]
      ELSE @[c]]]
FinallyHandlerKeep(S, a) ==
  LET S1 == [S EXCEPT !.attempts[a].phase = "done", !.attempts[a].cb = "none"]
  IN ResolveCalls(S1, a)
FinallyHandler(S, a) ==
  LET S1 == [S EXCEPT !.solving[S.attempts[a].key] = 0,
                      !.attempts[a].phase = "done", !.attempts[a].cb = "none"]
  IN ResolveCalls(S1, a)


\* ------------------------------------------------------------------- api.ts
\* Math.round((completed / total) * 100): the nearest integer, a half going up
\* (the double the code rounds is on the same side of the half as the exact
\* quotient for every total the specifications use)
RoundPercentOfRest(completed, total) ==
  (200 * (total - completed) + total) \div (2 * total)
RoundPercent(completed, total) == (200 * completed + total) \div (2 * total)

\* solveChallenges lines 441-450: the pool; creating worker number failAt throws
\* (failAt = 0: none does). made: the workers this call created, by creation
\* order; workers: slot -> worker.
CreateWorkers(att, failAt) ==
  IF failAt = 0
  THEN [att EXCEPT !.made = [w \in 1..att.workersCount |-> "live"],
                   !.workers = [j \in 1..att.workersCount |-> j]]
  ELSE [att EXCEPT !.made = [w \in 1..(failAt - 1) |-> "live"]]

\* solveChallenges lines 516-524 (finally): terminate every worker of the array.
\* broken: the workers whose terminate() throws; tried: the workers terminate()
\* was called on here; logged: those whose error the catch wrote to the console
TerminateWorkersStopsAtThrow(att) ==
  LET first == {j \in DOMAIN att.workers :
                  \A l \in 1..(j - 1) : att.workers[l] \notin att.broken}
      reached == {att.workers[j] : j \in first}
  IN [att EXCEPT
        !.made = [w \in DOMAIN @ |->
           IF w \in reached \ att.broken THEN "terminated" ELSE @[w]],
        !.tried = @ \cup reached,
        !.logged = @ \cup (reached \cap att.broken)]
TerminateWorkers(att) ==
  [att EXCEPT
     !.made = [w \in DOMAIN @ |->
        IF w \in Range(att.workers) \ att.broken THEN "terminated" ELSE @[w]],
     !.tried = @ \cup Range(att.workers),
     !.logged = @ \cup (Range(att.workers) \cap att.broken)]

\* solveChallenges lines 506-512: the chunk at i, one solveSingleChallenge per
\* challenge (lines 456-500): slot j's worker, a timeout armed, the message posted
PostChunk(att, t) ==
  LET n == Min(att.i + att.workersCount, Len(att.challenges)) - att.i IN
  [att EXCEPT
     !.units = [j \in 1..n |->
        [ch |-> att.i + j, worker |-> att.workers[j], state |-> "pending",
         timer |-> "armed", postedAt |-> t, due |-> t + WORKER_TIMEOUT_IN_MS,
         responded |-> FALSE, nonce |-> 0, fault |-> None, reported |-> None]],
     !.posted = @ \o [j \in 1..n |-> att.i + j]]

\* redeemSolutions lines 537-544: the redeem request is sent
SendRedeem(att) == [att EXCEPT !.phase = "redeem", !.redeems = @ + 1]

\* solveChallenges lines 505, 515-527 and solve line 65: the head of the chunk
\* loop; past the last chunk, the finally block, the return, and redeemSolutions
LoopHead(att, t) ==
  IF att.i < Len(att.challenges)
  THEN PostChunk([att EXCEPT !.phase = "solving"], t)
  ELSE SendRedeem([TerminateWorkers(att) EXCEPT !.outcome = "resolved", !.units = <<>>])

\* Promise.all over the chunk, then results.push (line 513)
ChunkResultsByCompletion(att, last) ==
  LET others == [j \in 1..(Len(att.units) - 1) |->
                   att.units[IF j < last THEN j ELSE j + 1].nonce]
  IN IF Len(att.units) = 0 THEN <<>> ELSE others \o <<att.units[last].nonce>>
ChunkResults(att, last) == [j \in 1..Len(att.units) |-> att.units[j].nonce]

\* solveChallenges lines 510-514, 505: the awaited chunk is complete (last: the
\* slot that completed last)
ChunkDoneByOne(att, last, t) ==
  LoopHead([att EXCEPT !.results = @ \o ChunkResults(att, last),
                       !.i = @ + 1], t)
ChunkDone(att, last, t) ==
  LoopHead([att EXCEPT !.results = @ \o ChunkResults(att, last),
                       !.i = @ + att.workersCount], t)

\* a unit's reject reaching solveChallenges while it awaits the chunk: the
\* finally block, then the rejection travels through solve to the .catch
PoolRejectedRetries(S, a, msg) ==
  [S EXCEPT !.attempts[a] = PostChunk(@, S.now)]
PoolRejectedIgnored(S, a, msg) == S
PoolRejected(S, a, msg) ==
  SolveRejects([S EXCEPT !.attempts[a] =
                  [TerminateWorkers(@) EXCEPT !.outcome = "rejected"]], a, msg)

\* solveSingleChallenge lines 463-471: the timeout callback of the unit in slot
\* j: the unit's worker is terminated, a new one is put in the slot (created:
\* createWorker succeeds), the unit is rejected; when terminate() throws, the
\* catch is entered before createWorker is called
TimeoutHandlerAllSlots(att, j, created) ==
  LET made1 == [w \in DOMAIN att.made |-> "terminated"]
  IN [att EXCEPT
        !.units[j].timer = "fired",
        !.units[j].state = IF @ = "pending" THEN "rejected" ELSE @,
        !.made = IF created THEN Append(made1, "live") ELSE made1,
        !.workers[j] = IF created THEN Len(att.made) + 1 ELSE @]
TimeoutHandler(att, j, created) ==
  LET thrown == att.units[j].worker \in att.broken
      made1 == IF thrown THEN att.made
               ELSE [att.made EXCEPT ![att.units[j].worker] = "terminated"]
      replaced == created /\ ~thrown
  IN [att EXCEPT
        !.units[j].timer = "fired",
        !.units[j].state = IF @ = "pending" THEN "rejected" ELSE @,
        !.made = IF replaced THEN Append(made1, "live") ELSE made1,
        !.workers[j] = IF replaced THEN Len(att.made) + 1 ELSE @]

\* solveSingleChallenge lines 484-492: the message of a worker fault
WorkerErrorMessage(err) ==
  "Error in worker: " \o (IF err = None THEN "unknown" ELSE err[1])


\* ------------------------------------------------------------ api.ts prng
\* A JavaScript string is the sequence of its UTF-16 code units; a 32-bit
\* integer is the pair <<high 16 bits, low 16 bits>> of its two's complement
\* representation, which is what ^, << and >>> work on.
HalfWord == 65536
RECURSIVE XorBits(_, _, _)
XorBits(a, b, bits) ==
  IF bits = 0 THEN 0
  ELSE ((a + b) % 2) + 2 * XorBits(a \div 2, b \div 2, bits - 1)
\* x ^ y
Xor32(x, y) == <<XorBits(x[1], y[1], 16), XorBits(x[2], y[2], 16)>>
\* x << n
Shl32(x, n) ==
  IF n >= 16 THEN <<(x[2] * 2^(n - 16)) % HalfWord, 0>>
  ELSE <<(x[1] * 2^n + (x[2] * 2^n) \div HalfWord) % HalfWord, (x[2] * 2^n) % HalfWord>>
\* x >>> n
Shr32(x, n) ==
  IF n >= 16 THEN <<0, x[1] \div 2^(n - 16)>>
  ELSE <<x[1] \div 2^n, (x[2] \div 2^n + (x[1] % 2^n) * 2^(16 - n)) % HalfWord>>
\* x + y, as ToInt32 / >>> 0 keep it
Add32(x, y) ==
  LET lo == x[2] + y[2] IN <<(x[1] + y[1] + lo \div HalfWord) % HalfWord, lo % HalfWord>>

\* prng lines 562-570: fnv1a; 2166136261 is 0x811c9dc5
FnvOffsetBasis == <<33052, 40389>>
FnvStep(hash, code) ==
  LET h == Xor32(hash, <<0, code>>) IN
  Add32(h, Add32(Shl32(h, 1), Add32(Shl32(h, 4), Add32(Shl32(h, 7),
        Add32(Shl32(h, 8), Shl32(h, 24))))))
RECURSIVE FnvFrom(_, _, _)
FnvFrom(hash, str, i) ==
  IF i > Len(str) THEN hash ELSE FnvFrom(FnvStep(hash, str[i]), str, i + 1)
Fnv1a(str) == FnvFrom(FnvOffsetBasis, str, 1)

\* prng lines 575-580: next, the xorshift step
XorShift(state) ==
  LET s1 == Xor32(state, Shl32(state, 13))
      s2 == Xor32(s1, Shr32(s1, 17))
  IN Xor32(s2, Shl32(s2, 5))

\* Number.prototype.toString(16) of a value below 65536 * 65536, as characters
HexChars == <<"0", "1", "2", "3", "4", "5", "6", "7",
              "8", "9", "a", "b", "c", "d", "e", "f">>
RECURSIVE HexOf(_)
HexOf(n) == IF n < 16 THEN <<HexChars[n + 1]>>
            ELSE HexOf(n \div 16) \o <<HexChars[(n % 16) + 1]>>
ToString16(x) ==
  IF x[1] = 0 THEN HexOf(x[2])
  ELSE LET lo == HexOf(x[2])
       IN HexOf(x[1]) \o [i \in 1..(4 - Len(lo)) |-> "0"] \o lo
\* String.prototype.padStart(width, '0')
PadStart(str, width) == [i \in 1..(width - Len(str)) |-> "0"] \o str
\* String.prototype.substring(0, end)
Substring(str, end) == SubSeq(str, 1, Min(Max(end, 0), Len(str)))

\* prng lines 572-587
RECURSIVE PrngLoop(_, _, _)
PrngLoop(state, result, length) ==
  IF Len(result) < length
  THEN LET rnd == XorShift(state)
       IN PrngLoop(rnd, result \o PadStart(ToString16(rnd), 8), length)
  ELSE result
Prng(seed, length) == Substring(PrngLoop(Fnv1a(seed), <<>>, length), length)

\* String(i) of a natural number, as code units ("0" is 48)
RECURSIVE DecimalOf(_)
DecimalOf(n) == IF n < 10 THEN <<48 + n>>
                ELSE DecimalOf(n \div 10) \o <<48 + (n % 10)>>

\* a ChallengeResponse: its challenge member is a descriptor {c, s, d} or an
\* array of [salt, target] pairs
Compact(c, s, d, token) ==
  [isArray |-> FALSE, c |-> c, s |-> s, d |-> d, array |-> <<>>, token |-> token]
Explicit(array, token) ==
  [isArray |-> TRUE, c |-> 0, s |-> 0, d |-> 0, array |-> array, token |-> token]

\* getChallenge lines 414-426: the challenges of a response; position i of the
\* sequence is index k = i - 1 of the array ("d" is 100)
GetChallengeFromZero(resp) ==
  IF ~resp.isArray
  THEN [i \in 1..resp.c |->
          <<Prng(resp.token \o DecimalOf(i - 1), resp.s),
            Prng(resp.token \o DecimalOf(i - 1) \o <<100>>, resp.d)>>]
  ELSE resp.array
GetChallenge(resp) ==
  IF ~resp.isArray
  THEN [i \in 1..resp.c |->
          <<Prng(resp.token \o DecimalOf(i), resp.s),
            Prng(resp.token \o DecimalOf(i) \o <<100>>, resp.d)>>]
  ELSE resp.array

\* ---------------------------------------------------------------- worker.ts
\* A thrown value: an Error with its message, a string, or another object.
ErrorValue(message) == [kind |-> "error", text |-> message]
StringValue(text) == [kind |-> "string", text |-> text]
ObjectValue == [kind |-> "object", text |-> ""]
\* lines 57 and 113: error instanceof Error ? error.message : String(error)
ErrorText(thrown) ==
  IF thrown.kind = "object" THEN "[object Object]" ELSE thrown.text

\* the module state of a worker that has run worker.ts (lines 4-5) and has
\* handled no message. supported: WebAssembly.instantiate is there; solver:
\* solvePowFunction; inits: the calls of wasmModule(); requests: the messages
\* handled, each with the responses posted for it; unsolicited: the messages
\* self.onerror posted
NewWorker ==
  [started |-> FALSE, supported |-> FALSE, wasmLoaded |-> FALSE, solver |-> "unset",
   inits |-> 0, initFailed |-> FALSE, requests |-> <<>>, unsolicited |-> <<>>]
NewRequest ==
  [state |-> "received", path |-> "none", thrown |-> None, responses |-> <<>>,
   escaped |-> FALSE]

\* onmessage lines 43-59: the accelerated solver; thrown: what solvePowFunction
\* throws (None: it returns the nonce)
AcceleratedSolveEscapes(W, r, thrown) ==
  [W EXCEPT !.requests[r] =
     [@ EXCEPT !.state = "done", !.path = "wasm", !.thrown = thrown,
               !.escaped = thrown # None,
               !.responses = IF thrown = None
                             THEN Append(@, [found |-> TRUE, nonce |-> NonceFor(r),
                                             duration |-> TRUE, error |-> ""])
                             ELSE @]]
AcceleratedSolve(W, r, thrown) ==
  [W EXCEPT !.requests[r] =
     [@ EXCEPT !.state = "done", !.path = "wasm", !.thrown = thrown,
               !.responses = Append(@,
                  IF thrown = None
                  THEN [found |-> TRUE, nonce |-> NonceFor(r), duration |-> TRUE,
                        error |-> ""]
                  ELSE [found |-> FALSE, nonce |-> 0, duration |-> FALSE,
                        error |-> ErrorText(thrown[1])])]]

\* onmessage lines 36-59: the fallback solver is started (it is not awaited)
\* when solvePowFunction is not set, else the accelerated solver runs
StartSolve(W, r, thrown) ==
  IF W.solver = "unset"
  THEN [W EXCEPT !.requests[r].state = "fallback", !.requests[r].path = "fallback"]
  ELSE AcceleratedSolve(W, r, thrown)

\* onmessage lines 7-34, up to the await of wasmModule() when there is one
OnMessage(W, thrown) ==
  LET r == Len(W.requests) + 1
      W1 == [W EXCEPT !.requests = Append(@, NewRequest)]
  IN IF W.supported /\ ~W.wasmLoaded
     THEN [W1 EXCEPT !.wasmLoaded = TRUE, !.inits = @ + 1,
                     !.requests[r].state = "init"]
     ELSE StartSolve(W1, r, thrown)

\* onmessage lines 18-41: wasmModule() has settled (ok: fulfilled)
AfterInit(W, r, ok, thrown) ==
  LET W1 == IF ok THEN [W EXCEPT !.solver = "wasm"]
            ELSE [W EXCEPT !.initFailed = TRUE]
  IN StartSolve(W1, r, thrown)

\* fallbackSolver lines 84-117: the search ends with a nonce (lines 102-105)
\* or with an exception in the batch (lines 109-116)
FallbackEnds(W, r, thrown) ==
  [W EXCEPT !.requests[r] =
     [@ EXCEPT !.state = "done", !.thrown = thrown,
               !.responses = Append(@,
                  IF thrown = None
                  THEN [found |-> TRUE, nonce |-> NonceFor(r), duration |-> FALSE,
                        error |-> ""]
                  ELSE [found |-> FALSE, nonce |-> 0, duration |-> FALSE,
                        error |-> ErrorText(thrown[1])])]]

\* ---------------------------------------------------------------- event loop
\* solveChallenges' chunk loop with no unit to await (workersCount 0 and
\* challenges left): await Promise.all([]) resumes in a microtask, so the loop
\* never gives the event loop back.
Spinning(att) ==
  att.phase = "solving" /\ att.outcome = "pending" /\ att.units = <<>>
Frozen == \E a \in DOMAIN attempts : Spinning(attempts[a])

\* a .then/.catch handler of some attempt has run and its .finally has not:
\* only promise continuations and the running callback's own calls come next
InHandlers == \E a \in DOMAIN attempts : attempts[a].phase \in {"onSolve", "settling"}

\* a macrotask (network response, worker event, timer) may run
MacrotaskMayRun == ~Frozen /\ ~InHandlers

\* the host may call into the module: between macrotasks, or from inside the
\* callback that is running
HostMayCall ==
  /\ ~Frozen
  /\ \A a \in DOMAIN attempts :
       attempts[a].phase = "settling" => attempts[a].cb # "none"

\* the unsettled attempts of a key
InFlight(key) ==
  {a \in DOMAIN attempts : attempts[a].key = key /\ attempts[a].phase # "done"}

\* the due times of the armed timers
ArmedDues ==
  {timers[tm].due : tm \in {x \in DOMAIN timers : timers[x].state = "armed"}}
  \cup UNION {{attempts[a].units[j].due :
                 j \in {x \in DOMAIN attempts[a].units :
                          attempts[a].units[x].timer = "armed"}} :
              a \in DOMAIN attempts}

\* the timer due at time due is the next to fire: no armed timer is due before it
NextDue(due) == \A e \in ArmedDues : due <= e

\* the state at the time the timer due at time due fires
AtDue(S, due) == [S EXCEPT !.now = Max(S.now, due)]

\* ------------------------------------------------------------------ actions
\* token.ts getCapToken (lines 122-139), called by the host
GetCapToken(key, lse, ra, wc) ==
  /\ HostMayCall
  /\ Len(calls) < MaxCalls
  /\ LET c == Len(calls) + 1
         item == storage[key]
         token == IF lse THEN GetLocalStorageItem(item, now) ELSE None
         call == [key |-> key, localStorageEnabled |-> lse,
                  refreshAutomatically |-> ra, workersCount |-> wc,
                  at |-> now, seen |-> IF lse THEN item ELSE RawNone,
                  inFlight |-> InFlight(key), hit |-> token # None, att |-> 0,
                  status |-> "pending", result |-> None,
                  solved |-> <<>>, errors |-> <<>>, progress |-> <<>>]
         S0 == [State EXCEPT !.calls = Append(@, call)]
     IN IF token # None
        THEN LET S1 == IF ra THEN StartRefresh(S0, c, 0, token[1].expires) ELSE S0
             IN Becomes([S1 EXCEPT !.calls[c].status = "resolved",
                                   !.calls[c].result = token])
        ELSE /\ solving[key] # 0 \/ Len(attempts) < MaxAttempts
             /\ LET S1 == SolveOneAtATime(S0, c, "call")
                IN Becomes([S1 EXCEPT !.calls[c].att = S1.solving[key]])
  /\ UNCHANGED ticks

\* getChallenge (lines 407-412): the fetch or the body's parse fails
ChallengeFails(a, msg) ==
  /\ MacrotaskMayRun
  /\ attempts[a].phase = "challenge"
  /\ Becomes(SolveRejects(State, a, msg))
  /\ UNCHANGED ticks

\* getChallenge returns the challenge set chs; solve goes on into
\* solveChallenges: the pool (worker failAt fails to start), the first chunk
ChallengeArrives(a, chs, failAt) ==
  /\ MacrotaskMayRun
  /\ attempts[a].phase = "challenge"
  /\ failAt \in 0..attempts[a].workersCount
  /\ LET att == CreateWorkers([attempts[a] EXCEPT !.challenges = chs], failAt)
     IN IF failAt # 0
        THEN Becomes(SolveRejects(
               [State EXCEPT !.attempts[a] = [att EXCEPT !.outcome = "rejected"]],
               a, "Worker creation failed"))
        ELSE Becomes([State EXCEPT !.attempts[a] = LoopHead(att, now)])
  /\ UNCHANGED ticks

\* getChallenge lines 407-429 on the server's response resp: the challenge set
\* is what getChallenge makes of it (challenges holds the positions of its
\* members); then solve goes on as in ChallengeArrives
ChallengeResponds(a, resp, failAt) ==
  /\ MacrotaskMayRun
  /\ attempts[a].phase = "challenge"
  /\ failAt \in 0..attempts[a].workersCount
  /\ LET set == GetChallenge(resp)
         att == CreateWorkers([attempts[a] EXCEPT
                                 !.served = Some(resp),
                                 !.challengeSet = set,
                                 !.challenges = [i \in 1..Len(set) |-> i]], failAt)
     IN IF failAt # 0
        THEN Becomes(SolveRejects(
               [State EXCEPT !.attempts[a] = [att EXCEPT !.outcome = "rejected"]],
               a, "Worker creation failed"))
        ELSE Becomes([State EXCEPT !.attempts[a] = LoopHead(att, now)])
  /\ UNCHANGED ticks

\* the body of the challenge endpoint's response: a text that is no JSON, a
\* JSON object with no challenge member (an error document), or a
\* ChallengeResponse
BodyText == [json |-> FALSE, hasChallenge |-> FALSE, resp |-> Explicit(<<>>, <<>>)]
BodyNoChallenge == [json |-> TRUE, hasChallenge |-> FALSE, resp |-> Explicit(<<>>, <<>>)]
BodyOf(resp) == [json |-> TRUE, hasChallenge |-> TRUE, resp |-> resp]

\* getChallenge lines 407-429 on a response of status ok (the code never reads
\* it) with the given body: json() rejects on a text that is no JSON, reading
\* challenge.c throws when the member is missing, and otherwise the challenge
\* set is made and solve goes on as in ChallengeArrives
ChallengeAnswers(a, ok, body, failAt) ==
  /\ MacrotaskMayRun
  /\ attempts[a].phase = "challenge"
  /\ failAt \in 0..attempts[a].workersCount
  /\ LET S0 == [State EXCEPT !.attempts[a].challengeOk = Some(ok)]
         set == GetChallenge(body.resp)
         att == CreateWorkers([S0.attempts[a] EXCEPT
                                 !.served = Some(body.resp),
                                 !.challengeSet = set,
                                 !.challenges = [i \in 1..Len(set) |-> i]], failAt)
     IN IF ~body.json
        THEN Becomes(SolveRejects(S0, a, "Unexpected token < in JSON at position 0"))
        ELSE IF ~body.hasChallenge
        THEN Becomes(SolveRejects(S0, a,
               "Cannot read properties of undefined (reading 'c')"))
        ELSE IF failAt # 0
        THEN Becomes(SolveRejects(
               [S0 EXCEPT !.attempts[a] = [att EXCEPT !.outcome = "rejected"]],
               a, "Worker creation failed"))
        ELSE Becomes([S0 EXCEPT !.attempts[a] = LoopHead(att, now)])
  /\ UNCHANGED ticks

\* the chunk loop going round with nothing to await
SpinChunk(a) ==
  /\ Spinning(attempts[a])
  /\ Becomes([State EXCEPT !.attempts[a] = ChunkDone(@, 0, now)])
  /\ UNCHANGED ticks

\* a unit awaits its worker: pending, and the worker not terminated
Awaiting(a, j) ==
  /\ attempts[a].outcome = "pending"
  /\ j \in DOMAIN attempts[a].units
  /\ attempts[a].units[j].state = "pending"
  /\ attempts[a].made[attempts[a].units[j].worker] = "live"

\* worker.onmessage with found: true (lines 473-482), and what the resolve
\* sets off when it completes the chunk
UnitSucceedsCountsTwice(a, j) ==
  /\ MacrotaskMayRun
  /\ Awaiting(a, j)
  /\ ~attempts[a].units[j].responded
  /\ LET att == attempts[a]
         completed == att.completed + 2
         att1 == [att EXCEPT !.units[j].timer = "cleared",
                             !.units[j].responded = TRUE,
                             !.completed = completed,
                             !.completedOrder = Append(@, att.units[j].ch),
                             !.units[j].state = "resolved",
                             !.units[j].nonce = NonceFor(att.challenges[att.units[j].ch])]
         S1 == OnProgress(State, att.ctx, a,
                          RoundPercent(completed, Len(att.challenges)))
         chunkDone == \A k \in DOMAIN att1.units : att1.units[k].state = "resolved"
     IN Becomes([S1 EXCEPT !.attempts[a] =
                   IF chunkDone THEN ChunkDone(att1, j, now) ELSE att1])
  /\ UNCHANGED ticks
UnitSucceeds(a, j) ==
  /\ MacrotaskMayRun
  /\ Awaiting(a, j)
  /\ ~attempts[a].units[j].responded
  /\ LET att == attempts[a]
         completed == att.completed + 1
         att1 == [att EXCEPT !.units[j].timer = "cleared",
                             !.units[j].responded = TRUE,
                             !.completed = completed,
                             !.completedOrder = Append(@, att.units[j].ch),
                             !.units[j].state = "resolved",
                             !.units[j].nonce = NonceFor(att.challenges[att.units[j].ch])]
         S1 == OnProgress(State, att.ctx, a,
                          RoundPercent(completed, Len(att.challenges)))
         chunkDone == \A k \in DOMAIN att1.units : att1.units[k].state = "resolved"
     IN Becomes([S1 EXCEPT !.attempts[a] =
                   IF chunkDone THEN ChunkDone(att1, j, now) ELSE att1])
  /\ UNCHANGED ticks

\* worker.onmessage with {found: false, error} (lines 474-476): the handler
\* returns
UnitReportsNotFound(a, j, error) ==
  /\ MacrotaskMayRun
  /\ Awaiting(a, j)
  /\ ~attempts[a].units[j].responded
  /\ Becomes([State EXCEPT !.attempts[a].units[j].responded = TRUE,
                           !.attempts[a].units[j].reported = Some(error)])
  /\ UNCHANGED ticks

\* worker.onerror (lines 484-492); err: the event's message (None: it has none)
UnitFaultsKeepsTimer(a, j, err) ==
  /\ MacrotaskMayRun
  /\ Awaiting(a, j)
  /\ LET S1 == [State EXCEPT !.attempts[a].units[j].fault = Some(err),
                             !.attempts[a].units[j].state = "rejected"]
     IN Becomes(PoolRejected(S1, a, WorkerErrorMessage(err)))
  /\ UNCHANGED ticks
UnitFaults(a, j, err) ==
  /\ MacrotaskMayRun
  /\ Awaiting(a, j)
  /\ LET S1 == [State EXCEPT !.attempts[a].units[j].timer = "cleared",
                             !.attempts[a].units[j].fault = Some(err),
                             !.attempts[a].units[j].state = "rejected"]
     IN Becomes(PoolRejected(S1, a, WorkerErrorMessage(err)))
  /\ UNCHANGED ticks

\* the unit's timeout fires (lines 463-471), once the time has come and no
\* earlier timer is left; created: createWorker succeeds
UnitTimesOutNoReject(a, j, created) ==
  /\ MacrotaskMayRun
  /\ j \in DOMAIN attempts[a].units
  /\ attempts[a].units[j].timer = "armed"
  /\ NextDue(attempts[a].units[j].due)
  /\ LET att == attempts[a]
         made1 == [att.made EXCEPT ![att.units[j].worker] = "terminated"]
         att1 == [att EXCEPT
                    !.units[j].timer = "fired",
                    !.made = IF created THEN Append(made1, "live") ELSE made1,
                    !.workers[j] = IF created THEN Len(att.made) + 1 ELSE @]
     IN Becomes([AtDue(State, att.units[j].due) EXCEPT !.attempts[a] = att1])
  /\ UNCHANGED ticks
UnitTimesOut(a, j, created) ==
  /\ MacrotaskMayRun
  /\ j \in DOMAIN attempts[a].units
  /\ attempts[a].units[j].timer = "armed"
  /\ NextDue(attempts[a].units[j].due)
  /\ LET att == attempts[a]
         att1 == TimeoutHandler(att, j, created)
         S1 == [AtDue(State, att.units[j].due) EXCEPT !.attempts[a] = att1]
     IN IF att.outcome = "pending"
        THEN Becomes(PoolRejected(S1, a, "Worker timeout"))
        ELSE Becomes(S1)
  /\ UNCHANGED ticks

\* redeemSolutions lines 537-544: the fetch rejects (no response)
RedeemFails(a, msg) ==
  /\ MacrotaskMayRun
  /\ attempts[a].phase = "redeem"
  /\ Becomes(SolveRejects(State, a, msg))
  /\ UNCHANGED ticks

\* redeemSolutions lines 537-550: the response arrives
RedeemResponds(a, ok) ==
  /\ MacrotaskMayRun
  /\ attempts[a].phase = "redeem"
  /\ LET S1 == OnProgress([State EXCEPT !.attempts[a].response =
                                          Some([ok |-> ok, success |-> "unread",
                                                message |-> None])],
                          attempts[a].ctx, a, 100)
     IN IF ok
        THEN Becomes([S1 EXCEPT !.attempts[a].phase = "redeemBody"])
        ELSE Becomes(SolveRejects(S1, a, "Failed to redeem token"))
  /\ UNCHANGED ticks

\* redeemSolutions lines 552-558: the body; message None: the server gave none
RedeemRefusedGeneric(a, message) ==
  /\ MacrotaskMayRun
  /\ attempts[a].phase = "redeemBody"
  /\ Becomes(SolveRejects([State EXCEPT !.attempts[a].response[1].success = "false",
                                         !.attempts[a].response[1].message = message],
                          a, "Invalid solution"))
  /\ UNCHANGED ticks
RedeemRefused(a, message) ==
  /\ MacrotaskMayRun
  /\ attempts[a].phase = "redeemBody"
  /\ Becomes(SolveRejects([State EXCEPT !.attempts[a].response[1].success = "false",
                                         !.attempts[a].response[1].message = message],
                          a, IF message = None THEN "Invalid solution" ELSE message[1]))
  /\ UNCHANGED ticks

\* redeemSolutions returns the token; the .then handler up to onSolve
RedeemSucceeds(a, offset) ==
  /\ MacrotaskMayRun
  /\ attempts[a].phase = "redeemBody"
  /\ Becomes(ThenHandler([State EXCEPT !.attempts[a].response[1].success = "true"],
                         a, [token |-> "token-" \o ToString(a),
                             expires |-> now + offset]))
  /\ UNCHANGED ticks

\* onSolve returns: the rest of the .then handler
OnSolveReturns(a) ==
  /\ attempts[a].phase = "onSolve"
  /\ Becomes(ThenHandlerRest(State, a))
  /\ UNCHANGED ticks

\* the .finally handler, and the promise resolves
Settles(a) ==
  /\ attempts[a].phase = "settling"
  /\ Becomes(FinallyHandler(State, a))
  /\ UNCHANGED ticks

\* the refresh timer's callback (lines 79-82), once the time has come and no
\* earlier timer is left
RefreshFires(tm) ==
  /\ MacrotaskMayRun
  /\ timers[tm].state = "armed"
  /\ NextDue(timers[tm].due)
  /\ solving[timers[tm].key] # 0 \/ Len(attempts) < MaxAttempts
  /\ LET S1 == [AtDue(State, timers[tm].due) EXCEPT !.timers[tm].state = "fired",
                             !.refreshTimeouts[timers[tm].key] = 0]
     IN Becomes(SolveOneAtATime(S1, timers[tm].ctx, "refresh"))
  /\ UNCHANGED ticks

\* token.ts cancelRefresh (lines 141-147), called by the host
CancelRefresh(key) ==
  /\ HostMayCall
  /\ Becomes(ClearRefresh(State, key))
  /\ UNCHANGED ticks

\* the hook's reset (useCap lines 194-203): the stored token is removed when
\* the hook uses the cache, and the refresh is cancelled (reset: the attempts
\* of the key that were in flight at a reset)
Reset(key, lse) ==
  /\ HostMayCall
  /\ LET S1 == IF lse THEN [State EXCEPT !.storage = RemoveLocalStorageItem(@, key)]
               ELSE State
         S2 == ClearRefresh(S1, key)
     IN Becomes([S2 EXCEPT !.attempts = [a \in DOMAIN @ |->
                   IF a \in InFlight(key) THEN [@[a] EXCEPT !.reset = TRUE] ELSE @[a]]])
  /\ UNCHANGED ticks

\* localStorage is the page's: something else than this module puts item under
\* key (getLocalStorageItem line 615 reads whatever is there)
HostStores(key, item) ==
  /\ HostMayCall
  /\ storage[key] # item
  /\ storage' = [storage EXCEPT ![key] = item]
  /\ UNCHANGED <<now, ticks, solving, refreshTimeouts, timers, calls, attempts, wk>>

\* a worker of attempt a's pool gets into a condition in which its terminate()
\* throws (solveChallenges lines 518-522 and 464-469 provide for it)
TerminateBreaks(a, w) ==
  /\ MacrotaskMayRun
  /\ w \in DOMAIN attempts[a].made
  /\ attempts[a].made[w] = "live"
  /\ w \notin attempts[a].broken
  /\ attempts' = [attempts EXCEPT ![a].broken = @ \cup {w}]
  /\ UNCHANGED <<now, ticks, storage, solving, refreshTimeouts, timers, calls, wk>>

\* worker.ts is run in a host with or without WebAssembly
WorkerStarts(supported) ==
  /\ ~wk.started
  /\ wk' = [wk EXCEPT !.started = TRUE, !.supported = supported]
  /\ UNCHANGED <<now, ticks, storage, solving, refreshTimeouts, timers, calls, attempts>>

\* self.onmessage (lines 7-60) on a {salt, target} request
WorkerOnMessage(thrown) ==
  /\ wk.started
  /\ Len(wk.requests) < MaxRequests
  /\ wk' = OnMessage(wk, thrown)
  /\ UNCHANGED <<now, ticks, storage, solving, refreshTimeouts, timers, calls, attempts>>

\* the await of wasmModule() (line 20) resumes for request r
WasmInitSettles(r, ok, thrown) ==
  /\ wk.requests[r].state = "init"
  /\ wk' = AfterInit(wk, r, ok, thrown)
  /\ UNCHANGED <<now, ticks, storage, solving, refreshTimeouts, timers, calls, attempts>>

\* the fallback search of request r ends
FallbackSettles(r, thrown) ==
  /\ wk.requests[r].state = "fallback"
  /\ wk' = FallbackEnds(wk, r, thrown)
  /\ UNCHANGED <<now, ticks, storage, solving, refreshTimeouts, timers, calls, attempts>>

\* self.onerror (lines 62-67) with the event's message
WorkerOnError(message) ==
  /\ wk.started
  /\ wk.unsolicited = <<>>
  /\ wk' = [wk EXCEPT !.unsolicited = Append(@, [found |-> FALSE, error |-> message])]
  /\ UNCHANGED <<now, ticks, storage, solving, refreshTimeouts, timers, calls, attempts>>

\* time passes
Tick(d) ==
  /\ MacrotaskMayRun
  /\ ticks < MaxTicks
  /\ now' = now + d
  /\ ticks' = ticks + 1
  /\ UNCHANGED <<storage, solving, refreshTimeouts, timers, calls, attempts, wk>>

\* ----------------------------------------------------------- specification
Init ==
  /\ now = 0
  /\ ticks = 0
  /\ storage = [k \in Keys |-> RawNone]
  /\ solving = [k \in Keys |-> 0]
  /\ refreshTimeouts = [k \in Keys |-> 0]
  /\ timers = <<>>
  /\ calls = <<>>
  /\ attempts = <<>>
  /\ wk = NewWorker

\* The token lifecycle: several callers and attempts for one key, every pool of
\* one worker and every challenge set of one challenge.
TokenContexts ==
  {<<DEFAULT_CAP_TOKEN_LOCAL_STORAGE_KEY, lse, ra, Some(1)>> :
     lse \in BOOLEAN, ra \in BOOLEAN}
Next ==
  \/ \E ctx \in TokenContexts : GetCapToken(ctx[1], ctx[2], ctx[3], ctx[4])
  \/ CancelRefresh(DEFAULT_CAP_TOKEN_LOCAL_STORAGE_KEY)
  \/ \E a \in DOMAIN attempts : ChallengeFails(a, "Network error")
  \/ \E a \in DOMAIN attempts, failAt \in 0..1 : ChallengeArrives(a, <<1>>, failAt)
  \/ \E a \in DOMAIN attempts : UnitSucceeds(a, 1)
  \/ \E a \in DOMAIN attempts : UnitReportsNotFound(a, 1, "solver failed")
  \/ \E a \in DOMAIN attempts : UnitFaults(a, 1, Some("boom"))
  \/ \E a \in DOMAIN attempts : UnitTimesOut(a, 1, TRUE)
  \/ \E a \in DOMAIN attempts, ok \in BOOLEAN : RedeemResponds(a, ok)
  \/ \E a \in DOMAIN attempts, message \in {None, Some("denied")} :
       RedeemRefused(a, message)
  \/ \E a \in DOMAIN attempts, offset \in ExpiryOffsets : RedeemSucceeds(a, offset)
  \/ \E a \in DOMAIN attempts : OnSolveReturns(a)
  \/ \E a \in DOMAIN attempts : Settles(a)
  \/ \E tm \in DOMAIN timers : RefreshFires(tm)
  \/ \E d \in TickSteps : Tick(d)

Spec == Init /\ [][Next]_vars

\* The dispatcher: one call, a workersCount of 0..MaxWorkers or one above
\* MAX_WORKERS_COUNT, and challenge sets of up to MaxChallenges challenges.
RequestedCounts == (0..MaxWorkers) \cup {MAX_WORKERS_COUNT + 4}
PoolContexts ==
  {<<DEFAULT_CAP_TOKEN_LOCAL_STORAGE_KEY, FALSE, FALSE, Some(n)>> : n \in RequestedCounts}
\* the slots of a chunk: it has no more units than there are challenges
Slots == 1..MaxChallenges
NextPool ==
  \/ /\ calls = <<>>
     /\ \E ctx \in PoolContexts : GetCapToken(ctx[1], ctx[2], ctx[3], ctx[4])
  \/ \E a \in DOMAIN attempts : ChallengeFails(a, "Network error")
  \/ \E a \in DOMAIN attempts, chs \in ChallengeLists, failAt \in 0..MaxWorkers :
       ChallengeArrives(a, chs, failAt)
  \/ \E a \in DOMAIN attempts : SpinChunk(a)
  \/ \E a \in DOMAIN attempts, j \in Slots : UnitSucceeds(a, j)
  \/ \E a \in DOMAIN attempts, j \in Slots : UnitReportsNotFound(a, j, "solver failed")
  \/ \E a \in DOMAIN attempts, j \in Slots, err \in {None, Some("boom")} :
       UnitFaults(a, j, err)
  \/ \E a \in DOMAIN attempts, j \in Slots, created \in BOOLEAN :
       UnitTimesOut(a, j, created)
  \/ \E a \in DOMAIN attempts : RedeemFails(a, "Network error")
  \/ \E a \in DOMAIN attempts, ok \in BOOLEAN : RedeemResponds(a, ok)
  \/ \E a \in DOMAIN attempts, message \in {None, Some("denied")} :
       RedeemRefused(a, message)
  \/ \E a \in DOMAIN attempts, offset \in ExpiryOffsets : RedeemSucceeds(a, offset)
  \/ \E a \in DOMAIN attempts : OnSolveReturns(a)
  \/ \E a \in DOMAIN attempts : Settles(a)
  \/ \E d \in TickSteps : Tick(d)

SpecPool == Init /\ [][NextPool]_vars


\* The refresh scheduler: two identities, each used by one context with
\* refreshAutomatically and without cache lookup; attempts that succeed, their
\* timers, and the host's cancelRefresh.
RefreshContexts ==
  {<<k, FALSE, TRUE, Some(1)>> : k \in Keys}
NextRefresh ==
  \/ \E ctx \in RefreshContexts : GetCapToken(ctx[1], ctx[2], ctx[3], ctx[4])
  \/ \E k \in Keys : CancelRefresh(k)
  \/ \E a \in DOMAIN attempts : ChallengeArrives(a, <<1>>, 0)
  \/ \E a \in DOMAIN attempts : UnitSucceeds(a, 1)
  \/ \E a \in DOMAIN attempts : RedeemResponds(a, TRUE)
  \/ \E a \in DOMAIN attempts, offset \in ExpiryOffsets : RedeemSucceeds(a, offset)
  \/ \E a \in DOMAIN attempts : OnSolveReturns(a)
  \/ \E a \in DOMAIN attempts : Settles(a)
  \/ \E tm \in DOMAIN timers : RefreshFires(tm)
  \/ \E d \in TickSteps : Tick(d)

SpecRefresh == Init /\ [][NextRefresh]_vars


\* The progress reports: one call with one worker, a challenge set of 1, 2 or
\* MaxTotal challenges, every unit succeeding.
ProgressContexts == {<<DEFAULT_CAP_TOKEN_LOCAL_STORAGE_KEY, FALSE, FALSE, Some(1)>>}
ProgressLists == {[i \in 1..n |-> i] : n \in {1, 2, MaxTotal}}
NextProgress ==
  \/ /\ calls = <<>>
     /\ \E ctx \in ProgressContexts : GetCapToken(ctx[1], ctx[2], ctx[3], ctx[4])
  \/ \E a \in DOMAIN attempts, chs \in ProgressLists : ChallengeArrives(a, chs, 0)
  \/ \E a \in DOMAIN attempts : UnitSucceeds(a, 1)
  \/ \E a \in DOMAIN attempts : RedeemResponds(a, TRUE)
  \/ \E a \in DOMAIN attempts : RedeemSucceeds(a, EXPIRES_BUFFER_IN_MS + 1)
  \/ \E a \in DOMAIN attempts : OnSolveReturns(a)
  \/ \E a \in DOMAIN attempts : Settles(a)

SpecProgress == Init /\ [][NextProgress]_vars

\* The token cache: the default key used by contexts with cache lookup and
\* without refresh, the page writing items of every shape under it and a token
\* under the other key, the hook's reset between solves, and attempts that
\* succeed.
StorageContexts == {<<DEFAULT_CAP_TOKEN_LOCAL_STORAGE_KEY, TRUE, FALSE, Some(1)>>}
\* a valid token's text, written at time t
ValidItem(t) == RawJson(JObj(JStr("stored"), JNum(t + EXPIRES_BUFFER_IN_MS + 1)))
\* what a stored string may be, at time t: no JSON, JSON that is no object, an
\* object with a member missing or of the wrong type, an expired token, a
\* valid token (absent: the initial state, and after reset)
StoredItems(t) ==
  {RawGarbage, RawJson(JScalar(JNull)), RawJson(JScalar(JNum(5))),
   RawJson(JObj(JNum(1), JNum(t + EXPIRES_BUFFER_IN_MS + 1))),
   RawJson(JObj(JStr("stored"), JStr("soon"))),
   RawJson(JObj(JStr("stored"), JUndef)),
   RawJson(JObj(JStr("stored"), JNum(t + EXPIRES_BUFFER_IN_MS))),
   ValidItem(t)}
NextStorage ==
  \/ \E ctx \in StorageContexts : GetCapToken(ctx[1], ctx[2], ctx[3], ctx[4])
  \/ \E item \in StoredItems(now) : HostStores(DEFAULT_CAP_TOKEN_LOCAL_STORAGE_KEY, item)
  \/ HostStores("other-key", ValidItem(now))
  \/ \E k \in Keys : InFlight(k) = {} /\ Reset(k, TRUE)
  \/ \E a \in DOMAIN attempts : ChallengeArrives(a, <<1>>, 0)
  \/ \E a \in DOMAIN attempts : UnitSucceeds(a, 1)
  \/ \E a \in DOMAIN attempts : RedeemResponds(a, TRUE)
  \/ \E a \in DOMAIN attempts : RedeemSucceeds(a, EXPIRES_BUFFER_IN_MS + 1)
  \/ \E a \in DOMAIN attempts : OnSolveReturns(a)
  \/ \E a \in DOMAIN attempts : Settles(a)

SpecStorage == Init /\ [][NextStorage]_vars

\* The challenge expander: one key, pools of two workers, the server answering
\* the challenge request with a descriptor or with an array; attempts that
\* succeed.
ExpandContexts == {<<DEFAULT_CAP_TOKEN_LOCAL_STORAGE_KEY, FALSE, FALSE, Some(2)>>}
\* the seed tokens "a" and "ab" (code units 97, 98)
SeedTokens == {<<97>>, <<97, 98>>}
\* the responses of the challenge endpoint
Responses ==
  {Compact(c, s, d, token) : c \in 0..2, s \in {0, 3, 9}, d \in {2, 8}, token \in SeedTokens}
  \cup {Explicit(array, <<97>>) :
          array \in {<<>>, << <<"s", "a", "l", "t">>, <<"0", "0">> >>}}
NextExpand ==
  \/ \E ctx \in ExpandContexts : GetCapToken(ctx[1], ctx[2], ctx[3], ctx[4])
  \/ \E a \in DOMAIN attempts, resp \in Responses : ChallengeResponds(a, resp, 0)
  \/ \E a \in DOMAIN attempts, j \in 1..2 : UnitSucceeds(a, j)
  \/ \E a \in DOMAIN attempts : RedeemResponds(a, TRUE)
  \/ \E a \in DOMAIN attempts : RedeemSucceeds(a, EXPIRES_BUFFER_IN_MS + 1)
  \/ \E a \in DOMAIN attempts : OnSolveReturns(a)
  \/ \E a \in DOMAIN attempts : Settles(a)

SpecExpand == Init /\ [][NextExpand]_vars

\* The challenge request: callers of one key with a pool of one worker, the
\* endpoint answering with a status and a body of each kind.
FetchContexts == {<<DEFAULT_CAP_TOKEN_LOCAL_STORAGE_KEY, FALSE, FALSE, Some(1)>>}
FetchBodies ==
  {BodyText, BodyNoChallenge,
   BodyOf(Explicit(<<>>, <<97>>)),
   BodyOf(Explicit(<< <<<<"a", "b">>, <<"0", "0">>>> >>, <<97>>)),
   BodyOf(Compact(1, 3, 2, <<97>>))}
NextFetch ==
  \/ \E ctx \in FetchContexts : GetCapToken(ctx[1], ctx[2], ctx[3], ctx[4])
  \/ \E a \in DOMAIN attempts : ChallengeFails(a, "Network error")
  \/ \E a \in DOMAIN attempts, ok \in BOOLEAN, body \in FetchBodies, failAt \in 0..1 :
       ChallengeAnswers(a, ok, body, failAt)
  \/ \E a \in DOMAIN attempts : UnitSucceeds(a, 1)
  \/ \E a \in DOMAIN attempts : UnitFaults(a, 1, None)
  \/ \E a \in DOMAIN attempts, ok \in BOOLEAN : RedeemResponds(a, ok)
  \/ \E a \in DOMAIN attempts : RedeemSucceeds(a, EXPIRES_BUFFER_IN_MS + 1)
  \/ \E a \in DOMAIN attempts : OnSolveReturns(a)
  \/ \E a \in DOMAIN attempts : Settles(a)

SpecFetch == Init /\ [][NextFetch]_vars

\* The unit solver: one worker, with or without WebAssembly, handling up to
\* MaxRequests requests, which may overlap; the accelerated solver's
\* initialisation and either solver succeeding or throwing.
ThrownValues ==
  {ErrorValue("Solve POW failed"), StringValue("String error message"), ObjectValue}
SolveOutcomes == {None} \cup {Some(v) : v \in ThrownValues}
NextWorker ==
  \/ \E supported \in BOOLEAN : WorkerStarts(supported)
  \/ \E thrown \in SolveOutcomes : WorkerOnMessage(thrown)
  \/ \E r \in DOMAIN wk.requests, ok \in BOOLEAN, thrown \in SolveOutcomes :
       WasmInitSettles(r, ok, thrown)
  \/ \E r \in DOMAIN wk.requests, thrown \in SolveOutcomes : FallbackSettles(r, thrown)
  \/ WorkerOnError("Global worker error")

SpecWorker == Init /\ [][NextWorker]_vars

\* The hook's reset: callers of one key with and without cache and refresh,
\* the hook's reset and cancelRefresh at any moment, attempts that succeed, and
\* their timers.
NextReset ==
  \/ \E ctx \in TokenContexts : GetCapToken(ctx[1], ctx[2], ctx[3], ctx[4])
  \/ \E lse \in BOOLEAN : Reset(DEFAULT_CAP_TOKEN_LOCAL_STORAGE_KEY, lse)
  \/ CancelRefresh(DEFAULT_CAP_TOKEN_LOCAL_STORAGE_KEY)
  \/ \E a \in DOMAIN attempts : ChallengeArrives(a, <<1>>, 0)
  \/ \E a \in DOMAIN attempts : UnitSucceeds(a, 1)
  \/ \E a \in DOMAIN attempts : RedeemResponds(a, TRUE)
  \/ \E a \in DOMAIN attempts : RedeemSucceeds(a, EXPIRES_BUFFER_IN_MS + 1)
  \/ \E a \in DOMAIN attempts : OnSolveReturns(a)
  \/ \E a \in DOMAIN attempts : Settles(a)
  \/ \E tm \in DOMAIN timers : RefreshFires(tm)

SpecReset == Init /\ [][NextReset]_vars

\* Shared attempts: callers of one key that differ in cache, refresh and
\* workersCount, joining each other's attempts of two challenges, which fail
\* at the challenge request or at the redeem request, or succeed.
JoinContexts ==
  {<<DEFAULT_CAP_TOKEN_LOCAL_STORAGE_KEY, lse, ra, Some(n)>> :
     lse \in BOOLEAN, ra \in BOOLEAN, n \in 1..MaxWorkers}
NextJoin ==
  \/ \E ctx \in JoinContexts : GetCapToken(ctx[1], ctx[2], ctx[3], ctx[4])
  \/ \E a \in DOMAIN attempts : ChallengeFails(a, "Network error")
  \/ \E a \in DOMAIN attempts : ChallengeArrives(a, <<1, 2>>, 0)
  \/ \E a \in DOMAIN attempts, j \in 1..MaxWorkers : UnitSucceeds(a, j)
  \/ \E a \in DOMAIN attempts, ok \in BOOLEAN : RedeemResponds(a, ok)
  \/ \E a \in DOMAIN attempts : RedeemSucceeds(a, EXPIRES_BUFFER_IN_MS + 1)
  \/ \E a \in DOMAIN attempts : OnSolveReturns(a)
  \/ \E a \in DOMAIN attempts : Settles(a)

SpecJoin == Init /\ [][NextJoin]_vars

\* The pool's cleanup: one call with two workers, one to three challenges,
\* workers whose terminate() throws, units that succeed, fault or time out.
CleanupContexts == {<<DEFAULT_CAP_TOKEN_LOCAL_STORAGE_KEY, FALSE, FALSE, Some(2)>>}
CleanupLists == {[i \in 1..n |-> i] : n \in 1..MaxChallenges}
NextCleanup ==
  \/ /\ calls = <<>>
     /\ \E ctx \in CleanupContexts : GetCapToken(ctx[1], ctx[2], ctx[3], ctx[4])
  \/ \E a \in DOMAIN attempts, chs \in CleanupLists : ChallengeArrives(a, chs, 0)
  \/ \E a \in DOMAIN attempts, w \in 1..(2 * MaxWorkers) : TerminateBreaks(a, w)
  \/ \E a \in DOMAIN attempts, j \in 1..MaxWorkers : UnitSucceeds(a, j)
  \/ \E a \in DOMAIN attempts, j \in 1..MaxWorkers : UnitFaults(a, j, Some("boom"))
  \/ \E a \in DOMAIN attempts, j \in 1..MaxWorkers, created \in BOOLEAN :
       UnitTimesOut(a, j, created)
  \/ \E a \in DOMAIN attempts : RedeemResponds(a, TRUE)
  \/ \E a \in DOMAIN attempts : RedeemSucceeds(a, EXPIRES_BUFFER_IN_MS + 1)
  \/ \E a \in DOMAIN attempts : OnSolveReturns(a)
  \/ \E a \in DOMAIN attempts : Settles(a)

SpecCleanup == Init /\ [][NextCleanup]_vars

\* Expiry times of every kind: callers of one key that all refresh, with and
\* without cache, and a redeem endpoint whose expires is already past, within
\* the expiry buffer, just past it, just below one day, one day, and one day
\* and the buffer ahead.
ExpiryContexts ==
  {<<DEFAULT_CAP_TOKEN_LOCAL_STORAGE_KEY, lse, TRUE, Some(1)>> : lse \in BOOLEAN}
WideExpiryOffsets ==
  {0, EXPIRES_BUFFER_IN_MS - 1, EXPIRES_BUFFER_IN_MS + 1, ONE_DAY_IN_MS - 1,
   ONE_DAY_IN_MS, ONE_DAY_IN_MS + EXPIRES_BUFFER_IN_MS}
NextExpiry ==
  \/ \E ctx \in ExpiryContexts : GetCapToken(ctx[1], ctx[2], ctx[3], ctx[4])
  \/ \E a \in DOMAIN attempts : ChallengeArrives(a, <<1>>, 0)
  \/ \E a \in DOMAIN attempts : UnitSucceeds(a, 1)
  \/ \E a \in DOMAIN attempts : RedeemResponds(a, TRUE)
  \/ \E a \in DOMAIN attempts, offset \in WideExpiryOffsets : RedeemSucceeds(a, offset)
  \/ \E a \in DOMAIN attempts : OnSolveReturns(a)
  \/ \E a \in DOMAIN attempts : Settles(a)
  \/ \E tm \in DOMAIN timers : RefreshFires(tm)
  \/ \E d \in TickSteps : Tick(d)

SpecExpiry == Init /\ [][NextExpiry]_vars


\* ------------------------------------------------------------------ claims
CallIds == DOMAIN calls
AttemptIds == DOMAIN attempts
\* the calls that went past the cache (solveOneAtATime was called for them)
Missed(c) == ~calls[c].hit
\* the messages the error callback of attempt a's context got while a was handled
ErrorsOf(a) ==
  LET log == calls[attempts[a].ctx].errors
      RECURSIVE Pick(_)
      Pick(i) == IF i > Len(log) THEN <<>>
                 ELSE (IF log[i].att = a THEN <<log[i].msg>> ELSE <<>>) \o Pick(i + 1)
  IN Pick(1)
\* the tokens the success callback of attempt a's context got while a was handled
SolvedOf(a) ==
  LET log == calls[attempts[a].ctx].solved
      RECURSIVE Pick(_)
      Pick(i) == IF i > Len(log) THEN <<>>
                 ELSE (IF log[i].att = a THEN <<log[i].token>> ELSE <<>>) \o Pick(i + 1)
  IN Pick(1)

\* C1: single-flight. A cache-missing call made while an attempt for its key is
\* unsettled joins that attempt (no second challenge fetch is made: an attempt
\* is one fetch); a key has at most one unsettled attempt, the one in the
\* solving map; an attempt sends at most one redeem request, and exactly one
\* when it yields a token; the calls that share an attempt get the same outcome.
C1_SingleFlight ==
  /\ \A k \in Keys :
       /\ Cardinality(InFlight(k)) <= 1
       /\ InFlight(k) = IF solving[k] = 0 THEN {} ELSE {solving[k]}
  /\ \A c \in CallIds :
       Missed(c) /\ calls[c].inFlight # {} => calls[c].att \in calls[c].inFlight
  /\ \A a \in AttemptIds :
       /\ attempts[a].redeems <= 1
       /\ attempts[a].value # None => attempts[a].redeems = 1
  /\ \A c, d \in CallIds :
       Missed(c) /\ Missed(d) /\ calls[c].att = calls[d].att =>
         /\ calls[c].status = calls[d].status
         /\ calls[c].result = calls[d].result
         /\ calls[c].status # "pending" => calls[c].result = attempts[calls[c].att].value

\* three calls joined in one attempt have resolved to its token
C1_Witness ==
  \E a \in AttemptIds :
    /\ attempts[a].value # None
    /\ Cardinality({c \in CallIds : calls[c].att = a /\ calls[c].status = "resolved"
                                    /\ calls[c].result = attempts[a].value}) >= 3

\* C2: getCapToken never rejects. Once solve() of an attempt has failed, the
\* error callback has got the failure's message, the promise resolves to
\* undefined and so does every call that holds it; no call is ever rejected.
C2_NeverRejects ==
  /\ \A c \in CallIds : calls[c].status # "rejected"
  /\ \A a \in AttemptIds :
       attempts[a].error # "" =>
         /\ attempts[a].phase \in {"settling", "done"}
         /\ ErrorsOf(a) = <<attempts[a].error>>
         /\ attempts[a].value = None
         /\ ~attempts[a].rejects
         /\ \A c \in CallIds :
              calls[c].att = a /\ attempts[a].phase = "done" =>
                calls[c].status = "resolved" /\ calls[c].result = None

\* two calls have resolved to undefined after their attempt's worker timed out
C2_Witness ==
  \E a \in AttemptIds :
    /\ attempts[a].phase = "done"
    /\ attempts[a].error = "Worker timeout"
    /\ Cardinality({c \in CallIds : calls[c].att = a /\ calls[c].status = "resolved"
                                    /\ calls[c].result = None}) >= 2

\* C3: a settled attempt has left the solving map, whether it succeeded or
\* failed, and a cache-missing call made when no attempt of its key is
\* unsettled gets an attempt of its own (a new challenge fetch).
C3_EntryRemoved ==
  /\ \A a \in AttemptIds :
       attempts[a].phase = "done" => solving[attempts[a].key] # a
  /\ \A c \in CallIds :
       Missed(c) /\ calls[c].inFlight = {} =>
         /\ calls[c].att \in AttemptIds
         /\ attempts[calls[c].att].ctx = c
         /\ attempts[calls[c].att].origin = "call"
         /\ \A d \in CallIds : d < c => calls[d].att # calls[c].att

\* a call made after a failed attempt and one made after a successful attempt
\* each started an attempt
C3_Witness ==
  \E c, d \in CallIds :
    /\ c < d
    /\ Missed(c) /\ Missed(d)
    /\ calls[c].att = 1 /\ calls[d].att = 2
    /\ attempts[1].phase = "done" /\ attempts[1].error # ""
    /\ attempts[2].phase = "done" /\ attempts[2].value # None
    /\ calls[d].inFlight = {}

\* a stored item that is the JSON text of a CapToken
WellFormed(item) == item.kind = "json" /\ IsCapToken(item.val)
\* the token a well-formed item holds
StoredToken(item) == [token |-> item.val.token.s, expires |-> item.val.expires.n]

\* C4: no token is passed to onSolve, nor handed out from the cache, at a
\* moment when its expires <= now + EXPIRES_BUFFER_IN_MS; freshly redeemed
\* tokens included.
C4_TokenValid ==
  \A c \in CallIds :
    /\ \A i \in DOMAIN calls[c].solved :
         calls[c].solved[i].token.expires > calls[c].solved[i].at + EXPIRES_BUFFER_IN_MS
    /\ calls[c].hit => calls[c].result[1].expires > calls[c].at + EXPIRES_BUFFER_IN_MS

\* C5: a getCapToken call with cache lookup enabled that finds a well-formed,
\* non-expired token under its key resolves at once to that token: no attempt is
\* started (no challenge fetch, redeem request or worker), nothing is stored, no
\* callback's onSolve is invoked; only with refreshAutomatically may a refresh
\* timer be arranged.
C5_CacheHit ==
  [][Len(calls') = Len(calls) + 1 =>
       LET c == Len(calls')
           call == calls'[c]
           item == storage[call.key]
       IN call.localStorageEnabled /\ WellFormed(item)
            /\ StoredToken(item).expires > now + EXPIRES_BUFFER_IN_MS
          => /\ call.hit
             /\ call.status = "resolved"
             /\ call.result = Some(StoredToken(item))
             /\ call.solved = <<>>
             /\ calls' = Append(calls, call)
             /\ attempts' = attempts
             /\ solving' = solving
             /\ storage' = storage
             /\ ~call.refreshAutomatically =>
                  timers' = timers /\ refreshTimeouts' = refreshTimeouts]_vars
C5_Witness ==
  /\ \E c \in CallIds : calls[c].hit /\ calls[c].refreshAutomatically
                        /\ calls[c].status = "resolved" /\ calls[c].att = 0
  /\ \E c \in CallIds : calls[c].hit /\ ~calls[c].refreshAutomatically

\* C6: reading the cache at time t, a well-formed stored token is absent exactly
\* when its expires <= t + 30000: expires = t + 29999 and expires = t + 30000
\* are misses, expires = t + 30001 is a hit.
C6_ExpiryBoundary ==
  \A c \in CallIds :
    calls[c].localStorageEnabled /\ WellFormed(calls[c].seen) =>
      LET expires == StoredToken(calls[c].seen).expires IN
      /\ calls[c].hit <=> ~(expires <= calls[c].at + 30000)
      /\ expires \in {calls[c].at + 29999, calls[c].at + 30000} => ~calls[c].hit
      /\ expires = calls[c].at + 30001 => calls[c].hit
C6_Witness ==
  \E c, d \in CallIds :
    /\ calls[c].localStorageEnabled /\ WellFormed(calls[c].seen)
    /\ StoredToken(calls[c].seen).expires = calls[c].at + 30000 /\ ~calls[c].hit
    /\ calls[d].localStorageEnabled /\ WellFormed(calls[d].seen)
    /\ StoredToken(calls[d].seen).expires = calls[d].at + 30001 /\ calls[d].hit

\* C7: solveChallenges' results hold, position by position, the nonce reported
\* for the challenge at that position, whatever the order in which the units of a
\* chunk completed; when it resolves there is one nonce per challenge.
C7_ResultsInOrder ==
  \A a \in AttemptIds :
    /\ Len(attempts[a].results) <= Len(attempts[a].challenges)
    /\ \A i \in DOMAIN attempts[a].results :
         attempts[a].results[i] = NonceFor(attempts[a].challenges[i])
    /\ attempts[a].outcome = "resolved" =>
         Len(attempts[a].results) = Len(attempts[a].challenges)
C7_Witness ==
  \E a \in AttemptIds :
    /\ attempts[a].outcome = "resolved"
    /\ attempts[a].completedOrder = <<2, 1, 3>>
    /\ Len(attempts[a].results) = 3

\* C8: once solveChallenges has settled (resolved or rejected) after creating
\* its pool, every worker the call created is terminated: none is live, and
\* none is created afterwards.
C8_WorkersTerminated ==
  \A a \in AttemptIds :
    attempts[a].outcome # "pending" /\ attempts[a].workers # <<>> =>
      \A w \in DOMAIN attempts[a].made : attempts[a].made[w] = "terminated"

\* the units of attempt a whose worker faulted
Faulted(a) ==
  {j \in DOMAIN attempts[a].units :
     attempts[a].units[j].state = "rejected" /\ attempts[a].units[j].timer = "cleared"}

C10_NeverHangs ==
  (\E a \in AttemptIds : attempts[a].phase # "done") => ENABLED <<NextPool>>_vars

\* the invocations of any call's error callback made while attempt a was handled
ErrorCallsOf(a) ==
  UNION {{<<c, i>> : i \in {j \in DOMAIN calls[c].errors : calls[c].errors[j].att = a}} :
         c \in CallIds}

\* C11: an attempt that ended in failure (its promise resolves to undefined:
\* transport, protocol or compute failure) has caused exactly one invocation of
\* the error callback, carrying the failure's message.
C11_OneErrorPerFailure ==
  \A a \in AttemptIds :
    attempts[a].phase \in {"settling", "done"} /\ attempts[a].value = None =>
      /\ Cardinality(ErrorCallsOf(a)) = 1
      /\ \A e \in ErrorCallsOf(a) :
           /\ e[1] = attempts[a].ctx
           /\ calls[e[1]].errors[e[2]].msg = attempts[a].error
C11_Witness ==
  \E a, b \in AttemptIds :
    /\ attempts[a].phase = "done" /\ attempts[a].error = "Network error"
    /\ attempts[b].phase = "done" /\ attempts[b].error = "Invalid solution"
    /\ Cardinality(ErrorCallsOf(a)) = 1 /\ Cardinality(ErrorCallsOf(b)) = 1

\* the timers startRefresh armed for the context of call c while handling a
TimersBy(c, a) == {tm \in DOMAIN timers : timers[tm].ctx = c /\ timers[tm].by = a}
\* the "Invalid expiration time" reports startRefresh made to call c's context
\* while handling a
InvalidBy(c, a) ==
  {i \in DOMAIN calls[c].errors :
     calls[c].errors[i].att = a /\ calls[c].errors[i].msg = "Invalid expiration time"}
\* the outcome the refresh rule prescribes for startRefresh(context of c, expires)
\* run at time t: with delay = expires - t - EXPIRES_BUFFER_IN_MS, one timer of
\* exactly that delay if 0 < delay < ONE_DAY_IN_MS, else one error report and no
\* timer
C12_Scheduled(c, a, expires, t) ==
  LET delay == expires - t - EXPIRES_BUFFER_IN_MS IN
  IF 0 < delay /\ delay < ONE_DAY_IN_MS
  THEN /\ Cardinality(TimersBy(c, a)) = 1
       /\ \A tm \in TimersBy(c, a) : timers[tm].delay = delay
       /\ InvalidBy(c, a) = {}
  ELSE /\ TimersBy(c, a) = {}
       /\ Cardinality(InvalidBy(c, a)) = 1

\* C12: startRefresh arms a timer of delay expires - now - EXPIRES_BUFFER_IN_MS
\* if and only if 0 < delay < ONE_DAY_IN_MS, and otherwise reports "Invalid
\* expiration time" and arms none; for the startRefresh of a cache hit and for
\* the one that follows a redeemed token.
C12_RefreshCondition ==
  /\ \A c \in CallIds :
       calls[c].hit /\ calls[c].refreshAutomatically =>
         C12_Scheduled(c, 0, calls[c].result[1].expires, calls[c].at)
  /\ \A a \in AttemptIds :
       /\ attempts[a].value # None
       /\ attempts[a].phase \in {"settling", "done"}
       /\ calls[attempts[a].ctx].refreshAutomatically
       => \A i \in DOMAIN calls[attempts[a].ctx].solved :
            calls[attempts[a].ctx].solved[i].att = a =>
              C12_Scheduled(attempts[a].ctx, a, attempts[a].value[1].expires,
                               calls[attempts[a].ctx].solved[i].at)

\* the armed (live) refresh timers of a key
LiveTimers(k) == {tm \in DOMAIN timers : timers[tm].key = k /\ timers[tm].state = "armed"}
\* a key has at most one live timer, the one refreshTimeouts records
LiveTimersRecorded ==
  \A k \in Keys :
    /\ Cardinality(LiveTimers(k)) <= 1
    /\ LiveTimers(k) \subseteq {refreshTimeouts[k]}

\* the token whose expiry startRefresh was given when it armed timer tm: the
\* cached token of the call (by = 0) or the token the attempt redeemed
TimerToken(tm) ==
  IF timers[tm].by = 0 THEN calls[timers[tm].ctx].result[1]
  ELSE attempts[timers[tm].by].value[1]

\* C13: in every state a key has at most one live refresh timer, and it is the
\* one the refresh map records; and the step that establishes a new token for a
\* key (the .then handler of its attempt completing) cancels every timer armed
\* for an earlier token of that key, and puts a new one for the new expiry in
\* its place.
C13_OneRefreshTimer ==
  [][/\ LiveTimersRecorded'
     /\ \A a \in AttemptIds :
          attempts[a].phase = "onSolve" /\ attempts'[a].phase = "settling" =>
            LET k == attempts[a].key
                token == attempts[a].value[1]
                earlier == {tm \in LiveTimers(k) : TimerToken(tm) # token}
            IN /\ \A tm \in earlier : timers'[tm].state = "cleared"
               /\ earlier # {} =>
                    \E n \in DOMAIN timers' \ DOMAIN timers :
                      /\ timers'[n].key = k /\ timers'[n].state = "armed"
                      /\ refreshTimeouts'[k] = n
                      /\ timers'[n].delay = token.expires - now - EXPIRES_BUFFER_IN_MS]_vars

\* C14: cancelRefresh(k) in any state, whether k has no timer, a fired one or
\* an armed one, leaves k without an entry and without a live timer, changes
\* nothing but k's armed timer and entry (every other identity's entry and
\* timer is as before), is a no-op when k has no entry, and done twice gives
\* the state a single call gives.
C14_CancelIdempotent ==
  \A k \in Keys :
    LET S1 == ClearRefresh(State, k)
        S2 == ClearRefresh(S1, k)
    IN /\ S2 = S1
       /\ S1.refreshTimeouts[k] = 0
       /\ \A tm \in DOMAIN S1.timers :
            S1.timers[tm].key = k => S1.timers[tm].state # "armed"
       /\ DOMAIN S1.timers = DOMAIN timers
       /\ \A tm \in DOMAIN timers :
            timers[tm].key # k \/ timers[tm].state # "armed" => S1.timers[tm] = timers[tm]
       /\ \A o \in Keys \ {k} : S1.refreshTimeouts[o] = refreshTimeouts[o]
       /\ [S1 EXCEPT !.timers = timers, !.refreshTimeouts = refreshTimeouts] = State
       /\ refreshTimeouts[k] = 0 => S1 = State
C14_Witness ==
  \E k, o \in Keys :
    /\ k # o
    /\ refreshTimeouts[k] = 0
    /\ \E tm \in DOMAIN timers : timers[tm].key = k /\ timers[tm].state = "cleared"
    /\ \A tm \in DOMAIN timers : timers[tm].key = k => timers[tm].state = "cleared"
    /\ refreshTimeouts[o] # 0
    /\ timers[refreshTimeouts[o]].key = o /\ timers[refreshTimeouts[o]].state = "armed"

\* the .then handler of attempt a has completed with a token whose refresh delay
\* is schedulable, for a context with refreshAutomatically
Renewable(a) ==
  /\ attempts[a].phase = "settling" /\ attempts[a].value # None
  /\ calls[attempts[a].ctx].refreshAutomatically
  /\ attempts[a].value[1].expires - now - EXPIRES_BUFFER_IN_MS > 0
  /\ attempts[a].value[1].expires - now - EXPIRES_BUFFER_IN_MS < ONE_DAY_IN_MS

\* C15: self-renewal. (1) When the .then handler of an attempt of a refreshing
\* context completes with a schedulable token, the identity's refresh timer is
\* one armed by that attempt, with delay expires - now - EXPIRES_BUFFER_IN_MS.
\* (2) The step in which a refresh timer fires drops the identity's entry and
\* leaves a solve in flight for the identity, whatever the cache holds: a new
\* attempt of the timer's context starting with the challenge fetch, unless one
\* was in flight already. (3) An attempt started by a timer that succeeded has
\* gone through dispatch and one redeem, has passed its token to onSolve once
\* and, with localStorageEnabled, has stored it.
C15_SelfRenewal ==
  [][/\ \A a \in DOMAIN attempts' :
          Renewable(a)' =>
            LET k == attempts'[a].key
                tm == refreshTimeouts'[k]
            IN /\ tm # 0
               /\ timers'[tm].state = "armed" /\ timers'[tm].by = a
               /\ timers'[tm].ctx = attempts'[a].ctx
               /\ timers'[tm].delay =
                    attempts'[a].value[1].expires - now' - EXPIRES_BUFFER_IN_MS
     /\ \A tm \in DOMAIN timers :
          timers[tm].state = "armed" /\ timers'[tm].state = "fired" =>
            LET k == timers[tm].key IN
            /\ refreshTimeouts'[k] = 0
            /\ storage' = storage
            /\ solving'[k] # 0
            /\ solving[k] # 0 => attempts' = attempts /\ solving' = solving
            /\ solving[k] = 0 =>
                 /\ Len(attempts') = Len(attempts) + 1
                 /\ solving'[k] = Len(attempts')
                 /\ attempts'[Len(attempts')].origin = "refresh"
                 /\ attempts'[Len(attempts')].ctx = timers[tm].ctx
                 /\ attempts'[Len(attempts')].phase = "challenge"
     /\ \A a \in DOMAIN attempts' :
          /\ attempts'[a].origin = "refresh"
          /\ attempts'[a].phase = "settling" /\ attempts'[a].value # None
          => /\ attempts'[a].outcome = "resolved"
             /\ Len(attempts'[a].results) = Len(attempts'[a].challenges)
             /\ attempts'[a].redeems = 1
             /\ SolvedOf(a)' = <<attempts'[a].value[1]>>
             /\ calls'[attempts'[a].ctx].localStorageEnabled =>
                  storage'[attempts'[a].key] = Stringify(attempts'[a].value[1])]_vars
C15_Witness ==
  \E a \in AttemptIds :
    /\ attempts[a].origin = "refresh" /\ attempts[a].phase = "done"
    /\ attempts[a].value # None
    /\ calls[attempts[a].ctx].localStorageEnabled
    /\ storage[attempts[a].key] = Stringify(attempts[a].value[1])
    /\ refreshTimeouts[attempts[a].key] # 0
    /\ timers[refreshTimeouts[attempts[a].key]].by = a
    /\ timers[refreshTimeouts[attempts[a].key]].delay > 0

\* the values the progress callback of attempt a's context got while a was handled
ProgressOf(a) ==
  LET log == calls[attempts[a].ctx].progress
      RECURSIVE Pick(_)
      Pick(i) == IF i > Len(log) THEN <<>>
                 ELSE (IF log[i].att = a THEN <<log[i].p>> ELSE <<>>) \o Pick(i + 1)
  IN Pick(1)

\* C16: the values an attempt passes to onProgress never decrease (and lie in
\* 0..100), and once the redeem response has arrived the last value passed is 100.
C16_ProgressMonotone ==
  \A a \in AttemptIds :
    LET p == ProgressOf(a) IN
    /\ \A i \in DOMAIN p : p[i] \in 0..100
    /\ \A i, j \in DOMAIN p : i <= j => p[i] <= p[j]
    /\ attempts[a].response # None => p # <<>> /\ p[Len(p)] = 100
C16_Witness ==
  \E a \in AttemptIds :
    /\ attempts[a].phase = "done" /\ attempts[a].value # None
    /\ ProgressOf(a) = <<33, 67, 100, 100>>

\* attempt a failed with exactly msg: the error callback got msg and nothing
\* else, and no token of the attempt was passed to onSolve, stored, or given a
\* refresh timer
FailedWith(a, msg) ==
  /\ attempts[a].phase \in {"settling", "done"}
  /\ attempts[a].error = msg
  /\ ErrorsOf(a) = <<msg>>
  /\ attempts[a].value = None
  /\ SolvedOf(a) = <<>>
  /\ TimersBy(attempts[a].ctx, a) = {}
  /\ \A k \in Keys :
       WellFormed(storage[k]) => StoredToken(storage[k]).token # "token-" \o ToString(a)

\* C17: an attempt whose redeem response is not OK fails with "Failed to redeem
\* token"; one whose OK response has success false fails with the server's
\* message, or "Invalid solution" when it gave none; the error callback gets
\* exactly that string and no token is stored, passed to onSolve or scheduled.
C17_RedeemFailure ==
  \A a \in AttemptIds :
    attempts[a].response # None =>
      LET r == attempts[a].response[1] IN
      /\ ~r.ok => FailedWith(a, "Failed to redeem token")
      /\ r.ok /\ r.success = "false" /\ r.message = None =>
           FailedWith(a, "Invalid solution")
      /\ r.ok /\ r.success = "false" /\ r.message # None =>
           FailedWith(a, r.message[1])
C17_Witness ==
  \E a, b \in AttemptIds :
    /\ attempts[a].response = Some([ok |-> FALSE, success |-> "unread", message |-> None])
    /\ attempts[a].phase = "done"
    /\ attempts[b].response = Some([ok |-> TRUE, success |-> "false",
                                    message |-> Some("denied")])
    /\ attempts[b].phase = "done"
    /\ calls[attempts[b].ctx].localStorageEnabled
    /\ calls[attempts[b].ctx].refreshAutomatically
    /\ ErrorsOf(b) = <<"denied">>

\* solveChallenges of attempt a has built its pool (lines 441-450 completed)
PoolBuilt(a) ==
  \/ attempts[a].phase = "solving"
  \/ attempts[a].outcome = "resolved"
  \/ attempts[a].outcome = "rejected" /\ attempts[a].error # "Worker creation failed"

\* C18: the pool a solve builds has between 1 and MAX_WORKERS_COUNT workers,
\* whatever workersCount was requested: a count above the maximum is clamped to
\* it and a count below 1 is raised to 1.
C18_WorkersClamped ==
  \A a \in AttemptIds :
    PoolBuilt(a) => Len(attempts[a].workers) \in 1..MAX_WORKERS_COUNT

\* C19: a unit whose worker raised onerror has its timeout cleared (it never
\* fires) and is rejected with "Error in worker: " followed by the event's
\* message ("unknown" when it has none); solveChallenges is rejected and the
\* error callback gets exactly that message.
C19_WorkerFault ==
  \A a \in AttemptIds : \A j \in DOMAIN attempts[a].units :
    attempts[a].units[j].fault # None =>
      LET err == attempts[a].units[j].fault[1]
          msg == "Error in worker: " \o (IF err = None THEN "unknown" ELSE err[1])
      IN /\ attempts[a].units[j].timer = "cleared"
         /\ attempts[a].units[j].state = "rejected"
         /\ attempts[a].outcome = "rejected"
         /\ attempts[a].error = msg
         /\ ErrorsOf(a) = <<msg>>
         /\ attempts[a].value = None
C19_Witness ==
  \E a \in AttemptIds : \E j \in DOMAIN attempts[a].units :
    /\ attempts[a].units[j].fault = Some(Some("boom"))
    /\ attempts[a].phase = "done"
    /\ ErrorsOf(a) = <<"Error in worker: boom">>
    /\ \E i \in DOMAIN attempts[a].units : attempts[a].units[i].timer = "fired"

\* C20: when creating a worker of the pool fails, solveChallenges is rejected
\* with exactly "Worker creation failed", no challenge has been posted to any
\* worker, and the workers created before the failing one are terminated.
C20_CreationFailure ==
  \A a \in AttemptIds :
    attempts[a].error = "Worker creation failed" =>
      /\ attempts[a].outcome = "rejected"
      /\ ErrorsOf(a) = <<"Worker creation failed">>
      /\ attempts[a].posted = <<>>
      /\ attempts[a].units = <<>>
      /\ \A w \in DOMAIN attempts[a].made : attempts[a].made[w] = "terminated"

\* the lowercase hexadecimal characters
LowerHex == {"0", "1", "2", "3", "4", "5", "6", "7", "8", "9",
             "a", "b", "c", "d", "e", "f"}

\* C21: the challenge set getChallenge makes of a descriptor {c, s, d} and seed
\* token has exactly c challenges, challenge i (from 1) being
\* (prng(token+i, s), prng(token+i+"d", d)), a salt of exactly s and a target of
\* exactly d lowercase hex characters; an array is used as it is; and two
\* attempts served the same response have the same challenge set.
C21_Expansion ==
  /\ \A a \in AttemptIds :
       attempts[a].served # None =>
         LET resp == attempts[a].served[1]
             set == attempts[a].challengeSet
         IN IF resp.isArray THEN set = resp.array
            ELSE /\ Len(set) = resp.c
                 /\ DOMAIN set = 1..resp.c
                 /\ \A i \in 1..resp.c :
                      /\ set[i] = <<Prng(resp.token \o DecimalOf(i), resp.s),
                                    Prng(resp.token \o DecimalOf(i) \o <<100>>, resp.d)>>
                      /\ Len(set[i][1]) = resp.s
                      /\ Len(set[i][2]) = resp.d
                      /\ Range(set[i][1]) \cup Range(set[i][2]) \subseteq LowerHex
  /\ \A a, b \in AttemptIds :
       attempts[a].served # None /\ attempts[a].served = attempts[b].served =>
         attempts[a].challengeSet = attempts[b].challengeSet
\* {c: 2, s: 3, d: 2} with seed "a" has given (ed3, b9), (c61, 4f) to two
\* attempts, and a third response was an array
C21_Witness ==
  \E a, b \in AttemptIds :
    /\ a # b
    /\ attempts[a].served = Some(Compact(2, 3, 2, <<97>>))
    /\ attempts[b].served = attempts[a].served
    /\ attempts[a].challengeSet = << << <<"e", "d", "3">>, <<"b", "9">> >>,
                                     << <<"c", "6", "1">>, <<"4", "f">> >> >>
    /\ attempts[b].phase = "done" /\ attempts[b].value # None

\* the stored string is the JSON text of an object whose token is a string and
\* whose expires is a number beyond t + EXPIRES_BUFFER_IN_MS
GoodEntry(item, t) ==
  /\ item.kind = "json" /\ item.val.t = "obj"
  /\ item.val.token.t = "str" /\ item.val.expires.t = "num"
  /\ item.val.expires.n > t + EXPIRES_BUFFER_IN_MS

\* C22: reading the cache never throws. A getCapToken call with cache lookup
\* is never rejected whatever string is stored under its key; it takes the
\* entry for a token exactly when the entry is well-formed and not expired, and
\* then resolves to exactly that token; for every other stored string (absent,
\* no JSON, JSON that is no object, null, a member missing or of the wrong
\* type, expired) the read gives null and the call goes on to a solve.
C22_ReadNeverThrows ==
  /\ \A c \in CallIds :
       calls[c].localStorageEnabled =>
         /\ calls[c].status # "rejected"
         /\ calls[c].hit <=> GoodEntry(calls[c].seen, calls[c].at)
         /\ calls[c].hit =>
              calls[c].result = Some([token |-> calls[c].seen.val.token.s,
                                      expires |-> calls[c].seen.val.expires.n])
         /\ ~calls[c].hit => calls[c].att \in AttemptIds
  /\ \A item \in StoredItems(now) \cup {RawNone, RawEmpty} :
       ~GoodEntry(item, now) => GetLocalStorageItem(item, now) = None
\* a call read a text that is no JSON, another an object with a member of the
\* wrong type, and a third a valid token
C22_Witness ==
  \E c, d, e \in CallIds :
    /\ calls[c].seen = RawGarbage /\ ~calls[c].hit
    /\ calls[d].seen.kind = "json" /\ calls[d].seen.val.token.t = "num" /\ ~calls[d].hit
    /\ calls[e].seen = ValidItem(calls[e].at) /\ calls[e].hit
    /\ calls[e].result = Some([token |-> "stored",
                               expires |-> calls[e].at + EXPIRES_BUFFER_IN_MS + 1])

\* tokens that are not expired at time t
FreshTokens(t) ==
  {[token |-> s, expires |-> t + EXPIRES_BUFFER_IN_MS + o] :
     s \in {"stored", "token-1"}, o \in {1, 2}}
\* the round-trip laws on the store st at time t: set then get gives the token,
\* the second of two sets wins, set then remove then get gives null, and no
\* other key's item changes
RoundTripLaws(st, t) ==
  \A k \in Keys : \A t1, t2 \in FreshTokens(t) :
    LET s1 == SetLocalStorageItem(st, k, t1)
        s2 == SetLocalStorageItem(s1, k, t2)
        s3 == RemoveLocalStorageItem(s1, k)
    IN /\ GetLocalStorageItem(s1[k], t) = Some(t1)
       /\ GetLocalStorageItem(s2[k], t) = Some(t2)
       /\ GetLocalStorageItem(s3[k], t) = None
       /\ \A o \in Keys \ {k} : s1[o] = st[o] /\ s2[o] = st[o] /\ s3[o] = st[o]

Outstanding(a) ==
  {j \in DOMAIN attempts[a].units : attempts[a].units[j].state = "pending"}
\* the first position of the chunk that position p belongs to, for chunks of wc
ChunkStart(p, wc) == ((p - 1) \div wc) * wc + 1

\* C24: wave barrier. The challenges posted so far are the first ones, each
\* once and in order, in chunks of workersCount; the unit of position j of the
\* current chunk holds challenge i + j and went to the worker of slot j; a
\* challenge is posted only when every challenge of the earlier chunks has
\* succeeded; at most workersCount units are outstanding, no two of them on the
\* same worker.
C24_WaveBarrier ==
  \A a \in AttemptIds :
    LET att == attempts[a]
        wc == att.workersCount
    IN /\ Len(att.posted) <= Len(att.challenges)
       /\ \A p \in DOMAIN att.posted : att.posted[p] = p
       /\ att.posted # <<>> =>
            /\ wc >= 1
            /\ Len(att.posted) = Min(att.i + wc, Len(att.challenges))
            /\ att.i % wc = 0
       /\ Len(att.units) <= wc
       /\ \A j \in DOMAIN att.units :
            /\ att.units[j].ch = att.i + j
            /\ att.units[j].worker = j
       /\ \A p \in DOMAIN att.posted :
            \A q \in 1..(ChunkStart(p, wc) - 1) : q \in Range(att.completedOrder)
       /\ Cardinality(Outstanding(a)) <= wc
       /\ \A j, l \in Outstanding(a) :
            j # l => att.units[j].worker # att.units[l].worker
\* two workers, three challenges: the second wave is out with its one unit
\* outstanding, after both units of the first wave succeeded
C24_Witness ==
  \E a \in AttemptIds :
    /\ attempts[a].workersCount = 2
    /\ attempts[a].posted = <<1, 2, 3>>
    /\ attempts[a].completedOrder = <<2, 1>>
    /\ attempts[a].i = 2
    /\ Outstanding(a) = {1}
    /\ attempts[a].units[1].ch = 3

\* the units of attempt a that have failed, by timeout or by a worker fault
FailedUnits(a) ==
  {j \in DOMAIN attempts[a].units : attempts[a].units[j].state = "rejected"}
\* the error a failed unit was rejected with
UnitError(unit) ==
  IF unit.fault # None
  THEN "Error in worker: " \o (IF unit.fault[1] = None THEN "unknown" ELSE unit.fault[1][1])
  ELSE "Worker timeout"

\* C25: fail-fast. The step in which a unit of a wave fails while
\* solveChallenges is pending rejects it with that unit's error; and once a unit
\* has failed, solveChallenges stays rejected with that error, the wave of the
\* failed unit is the last one posted, and no challenge is posted any more.
C25_FailFast ==
  [][\A a \in AttemptIds :
       /\ \A j \in DOMAIN attempts[a].units :
            /\ attempts[a].units[j].state = "pending"
            /\ j \in DOMAIN attempts'[a].units
            /\ attempts'[a].units[j].state = "rejected"
            /\ attempts[a].outcome = "pending"
            => /\ attempts'[a].outcome = "rejected"
               /\ attempts'[a].error = UnitError(attempts'[a].units[j])
               /\ ErrorsOf(a)' = <<UnitError(attempts'[a].units[j])>>
       /\ FailedUnits(a) # {} =>
            /\ attempts[a].outcome = "rejected"
            /\ attempts'[a].outcome = "rejected"
            /\ attempts'[a].error = attempts[a].error
            /\ attempts'[a].posted = attempts[a].posted
            /\ attempts'[a].i = attempts[a].i
            /\ Len(attempts[a].posted) = attempts[a].i + Len(attempts[a].units)
            /\ attempts[a].redeems = 0 /\ attempts'[a].redeems = 0]_vars
\* two workers, three challenges: a unit of the first wave timed out, the call
\* has settled, and the third challenge was never posted
C25_Witness ==
  \E a \in AttemptIds :
    /\ attempts[a].workersCount = 2
    /\ Len(attempts[a].challenges) = 3
    /\ attempts[a].posted = <<1, 2>>
    /\ attempts[a].completedOrder = <<1>>
    /\ FailedUnits(a) = {2}
    /\ attempts[a].units[2].timer = "fired"
    /\ attempts[a].error = "Worker timeout"
    /\ attempts[a].phase = "done"

\* C26: a unit whose worker has reported {found: false, error} is failed with
\* "Error in worker: " followed by the error as the message arrives:
\* solveChallenges is rejected with it and the unit's timeout is no longer armed.
C26_NotFoundFails ==
  \A a \in AttemptIds : \A j \in DOMAIN attempts[a].units :
    attempts[a].units[j].reported # None =>
      /\ attempts[a].units[j].state = "rejected"
      /\ attempts[a].units[j].timer # "armed"
      /\ attempts[a].outcome = "rejected"
      /\ attempts[a].error = "Error in worker: " \o attempts[a].units[j].reported[1]

\* C27: during the solve phase (before the redeem response) the progress value
\* just reported, round(completed / total * 100), is 100 only when every
\* challenge has succeeded: completed = total.
C27_HundredOnlyAtEnd ==
  \A a \in AttemptIds :
    LET log == calls[attempts[a].ctx].progress IN
    /\ attempts[a].response = None
    /\ log # <<>>
    /\ log[Len(log)].att = a
    /\ log[Len(log)].p = 100
    => attempts[a].completed = Len(attempts[a].challenges)

\* the invocations of any call's success callback made while attempt a was handled
SolveCallsOf(a) ==
  UNION {{<<c, i>> : i \in {j \in DOMAIN calls[c].solved : calls[c].solved[j].att = a}} :
         c \in CallIds}

\* C28: the steps of a successful attempt. (1) The step in which the token
\* arrives stores it under the key if and only if the initiating context has
\* localStorageEnabled, and invokes onSolve with it: when onSolve runs the token
\* is persisted, no refresh has been scheduled by the attempt and the in-flight
\* entry is in place. (2) Only the step after onSolve has returned schedules
\* the refresh, once, if and only if the context has refreshAutomatically;
\* it stores nothing and the entry is still in place. (3) The last step removes
\* the entry and does nothing else. Throughout, onSolve has been invoked exactly
\* once for the attempt, by the initiating context, however many calls joined,
\* and the store changes in step (1) only.
C28_SuccessOrder ==
  [][/\ \A a \in DOMAIN attempts' :
          attempts'[a].value # None =>
            /\ attempts'[a].phase \in {"onSolve", "settling", "done"}
            /\ Cardinality(SolveCallsOf(a)') = 1
            /\ SolvedOf(a)' = <<attempts'[a].value[1]>>
     /\ storage' # storage =>
          \E a \in AttemptIds :
            attempts[a].phase = "redeemBody" /\ attempts'[a].phase = "onSolve"
     /\ \A a \in AttemptIds :
          LET c == attempts[a].ctx
              k == attempts[a].key
          IN /\ attempts[a].phase = "redeemBody" /\ attempts'[a].phase = "onSolve" =>
                  /\ SolveCallsOf(a) = {}
                  /\ IF calls[c].localStorageEnabled
                     THEN storage' = [storage EXCEPT ![k] = Stringify(attempts'[a].value[1])]
                     ELSE storage' = storage
                  /\ TimersBy(c, a)' = {} /\ InvalidBy(c, a)' = {}
                  /\ timers' = timers /\ refreshTimeouts' = refreshTimeouts
                  /\ solving'[k] = a
             /\ attempts[a].phase = "onSolve" /\ attempts'[a].phase # "onSolve" =>
                  /\ attempts'[a].phase = "settling"
                  /\ TimersBy(c, a) = {} /\ InvalidBy(c, a) = {}
                  /\ IF calls[c].refreshAutomatically
                     THEN Cardinality(TimersBy(c, a)') + Cardinality(InvalidBy(c, a)') = 1
                     ELSE timers' = timers /\ refreshTimeouts' = refreshTimeouts
                          /\ calls' = calls
                  /\ solving[k] = a /\ solving'[k] = a
             /\ attempts[a].phase = "settling" /\ attempts'[a].phase # "settling"
                /\ attempts[a].value # None =>
                  /\ attempts'[a].phase = "done"
                  /\ solving[k] = a /\ solving'[k] = 0
                  /\ timers' = timers /\ refreshTimeouts' = refreshTimeouts
                  /\ Cardinality(TimersBy(c, a)) + Cardinality(InvalidBy(c, a))
                       = IF calls[c].refreshAutomatically THEN 1 ELSE 0]_vars
\* three calls shared an attempt of a caching, refreshing context: its token is
\* stored, onSolve ran once, its timer is armed and the entry is gone
C28_Witness ==
  \E a \in AttemptIds :
    /\ attempts[a].phase = "done" /\ attempts[a].value # None
    /\ Cardinality({c \in CallIds : calls[c].att = a}) = 3
    /\ calls[attempts[a].ctx].localStorageEnabled
    /\ calls[attempts[a].ctx].refreshAutomatically
    /\ storage[attempts[a].key] = Stringify(attempts[a].value[1])
    /\ Cardinality(SolveCallsOf(a)) = 1
    /\ \E tm \in TimersBy(attempts[a].ctx, a) :
         timers[tm].state = "armed" /\ refreshTimeouts[attempts[a].key] = tm
    /\ solving[attempts[a].key] = 0

\* key k is at rest: no refresh timer of k is armed and no solve of k is in flight
AtRest(k) == LiveTimers(k) = {} /\ solving[k] = 0 /\ InFlight(k) = {}
\* the success callback invocations made for key k so far
SolvedFor(k) ==
  UNION {{<<c, i>> : i \in DOMAIN calls[c].solved} : c \in {d \in CallIds : calls[d].key = k}}

\* C29: a cancelRefresh(k) made while a timer of k is armed and no solve of k
\* is in flight leaves k at rest; and while k is at rest, every step that is not
\* a getCapToken call for k leaves it at rest: no timer of k fires or is armed,
\* no attempt of k is started (no challenge fetch) and no onSolve is invoked
\* for k.
C29_CancelStopsRefresh ==
  [][\A k \in Keys :
       /\ /\ refreshTimeouts[k] # 0 /\ refreshTimeouts'[k] = 0
          /\ timers[refreshTimeouts[k]].state = "armed"
          /\ timers'[refreshTimeouts[k]].state # "fired"
          /\ attempts' = attempts /\ calls' = calls
          /\ solving[k] = 0
          => AtRest(k)'
       /\ /\ AtRest(k)
          /\ ~(Len(calls') = Len(calls) + 1 /\ calls'[Len(calls')].key = k)
          => /\ AtRest(k)'
             /\ \A tm \in DOMAIN timers' :
                  timers'[tm].key = k =>
                    tm \in DOMAIN timers /\ timers'[tm] = timers[tm]
             /\ {a \in DOMAIN attempts' : attempts'[a].key = k}
                  = {a \in AttemptIds : attempts[a].key = k}
             /\ SolvedFor(k)' = SolvedFor(k)]_vars
\* the only timer armed for the key was cancelled with no solve in flight, the
\* time at which it was due has come, and no solve was started by a timer
C29_Witness ==
  \E tm \in DOMAIN timers :
    /\ timers[tm].state = "cleared"
    /\ AtRest(timers[tm].key)
    /\ now >= timers[tm].due
    /\ timers[tm].due > 0
    /\ \A o \in DOMAIN timers : o # tm => timers[o].key # timers[tm].key
    /\ \A a \in AttemptIds : attempts[a].origin = "call"
    /\ \E a \in AttemptIds : attempts[a].phase = "done" /\ TimersBy(attempts[a].ctx, a) = {tm}

\* what the timeout callback of slot j does to attempt att (att1: the attempt
\* after it): the unit's worker is terminated and, when a worker could be
\* created, slot j holds that new, live worker; every other slot holds the
\* worker it held, every other worker is in the state it was in, every other
\* unit (state, timer, worker) is as it was, and so are the completed count,
\* the results and the position of the loop
TimeoutFrame(att, att1, j) ==
  LET w == att.units[j].worker IN
  /\ att1.made[w] = "terminated"
  /\ att1.units[j].timer = "fired"
  /\ Len(att1.made) \in {Len(att.made), Len(att.made) + 1}
  /\ IF Len(att1.made) = Len(att.made) + 1
     THEN att1.workers[j] = Len(att1.made) /\ att1.made[Len(att1.made)] = "live"
     ELSE att1.workers[j] = att.workers[j]
  /\ DOMAIN att1.workers = DOMAIN att.workers
  /\ \A l \in DOMAIN att.workers \ {j} : att1.workers[l] = att.workers[l]
  /\ \A v \in DOMAIN att.made \ {w} : att1.made[v] = att.made[v]
  /\ DOMAIN att1.units = DOMAIN att.units
  /\ \A l \in DOMAIN att.units \ {j} : att1.units[l] = att.units[l]
  /\ att1.completed = att.completed
  /\ att1.results = att.results
  /\ att1.i = att.i /\ att1.posted = att.posted

\* C30: in every state, for every unit whose timeout is armed, the timeout
\* callback terminates and replaces the worker of that unit's slot only, and
\* leaves the other slots' workers, the other units and their timers, and the
\* completed count as they are. And in the step in which a timeout fires, the
\* other units, their timers, the other slots and the completed count are
\* unchanged; when the call had settled before, so is every other worker.
C30_TimeoutFrame ==
  [][\A a \in AttemptIds : \A j \in DOMAIN attempts[a].units :
       /\ attempts[a].units[j].timer = "armed" =>
            \A created \in BOOLEAN :
              /\ TimeoutFrame(attempts[a], TimeoutHandler(attempts[a], j, created), j)
              /\ created =>
                   Len(TimeoutHandler(attempts[a], j, created).made)
                     = Len(attempts[a].made) + 1
       /\ /\ attempts[a].units[j].timer = "armed"
          /\ j \in DOMAIN attempts'[a].units
          /\ attempts'[a].units[j].timer = "fired"
          => /\ \A l \in DOMAIN attempts[a].units \ {j} :
                  attempts'[a].units[l] = attempts[a].units[l]
             /\ \A l \in DOMAIN attempts[a].workers \ {j} :
                  attempts'[a].workers[l] = attempts[a].workers[l]
             /\ attempts'[a].completed = attempts[a].completed
             /\ attempts'[a].made[attempts[a].units[j].worker] = "terminated"
             /\ attempts[a].outcome # "pending" =>
                  TimeoutFrame(attempts[a], attempts'[a], j)]_vars
\* two workers: the unit of slot 2 timed out and its slot holds a third worker,
\* while slot 1 holds its first worker and its unit, which had succeeded before,
\* is as it was
C30_Witness ==
  \E a \in AttemptIds :
    /\ attempts[a].workersCount = 2
    /\ Len(attempts[a].units) = 2
    /\ attempts[a].units[2].timer = "fired"
    /\ attempts[a].workers = <<1, 3>>
    /\ attempts[a].units[1].state = "resolved"
    /\ attempts[a].completed = 1
    /\ attempts[a].error = "Worker timeout"

\* the workers of attempt a's pool that replaced a timed-out worker
Replacements(a) ==
  {w \in DOMAIN attempts[a].made : w > attempts[a].workersCount}

\* C31: no automatic retry. Within one solveChallenges call no challenge is
\* posted twice, and every unit was posted to a worker of the original pool,
\* never to a replacement; once a unit has timed out or faulted, the call is
\* rejected and no step posts anything: the posted challenges, the units and
\* the results stay as they are.
C31_NoRetry ==
  [][\A a \in AttemptIds :
       /\ \A p, q \in DOMAIN attempts'[a].posted :
            p # q => attempts'[a].posted[p] # attempts'[a].posted[q]
       /\ \A j \in DOMAIN attempts'[a].units :
            attempts'[a].units[j].worker \notin Replacements(a)'
       /\ FailedUnits(a) # {} =>
            /\ attempts[a].outcome = "rejected" /\ attempts'[a].outcome = "rejected"
            /\ attempts'[a].posted = attempts[a].posted
            /\ attempts'[a].results = attempts[a].results
            /\ DOMAIN attempts'[a].units = DOMAIN attempts[a].units
            /\ \A j \in DOMAIN attempts[a].units :
                 /\ attempts'[a].units[j].ch = attempts[a].units[j].ch
                 /\ attempts'[a].units[j].postedAt = attempts[a].units[j].postedAt
                 /\ attempts'[a].units[j].worker = attempts[a].units[j].worker]_vars
\* two workers, two challenges: the unit of slot 2 faulted and failed the call;
\* the unit of slot 1 timed out later and its slot was given a replacement
\* worker; each challenge was posted once
C31_Witness ==
  \E a \in AttemptIds :
    /\ attempts[a].posted = <<1, 2>>
    /\ Len(attempts[a].units) = 2
    /\ attempts[a].units[2].fault # None
    /\ attempts[a].units[1].timer = "fired"
    /\ Replacements(a) = {3}
    /\ attempts[a].made[3] = "live"
    /\ attempts[a].phase = "done"
    /\ ErrorsOf(a) = <<"Error in worker: boom">>

\* C32: the step in which solveChallenges settles, after building its pool,
\* calls terminate() on every worker of the pool whether or not an earlier
\* terminate() threw; the workers whose terminate() did not throw are
\* terminated, the errors of the others are logged; and the outcome is what the
\* units made it: resolved with one nonce per challenge, in order, the redeem
\* request sent, or rejected with the error of the unit that failed, which is
\* what the error callback gets.
C32_TerminateSwallowed ==
  [][\A a \in AttemptIds :
       /\ attempts[a].outcome = "pending"
       /\ attempts'[a].outcome # "pending"
       /\ attempts[a].workers # <<>>
       => LET att == attempts'[a] IN
          /\ Range(att.workers) \subseteq att.tried
          /\ \A w \in Range(att.workers) \ att.broken : att.made[w] = "terminated"
          /\ att.logged = Range(att.workers) \cap att.broken
          /\ att.outcome = "resolved" =>
               /\ Len(att.results) = Len(att.challenges)
               /\ \A i \in DOMAIN att.results :
                    att.results[i] = NonceFor(att.challenges[i])
               /\ att.phase = "redeem" /\ att.redeems = 1
               /\ att.error = ""
               /\ ErrorsOf(a)' = <<>>
          /\ att.outcome = "rejected" =>
               /\ \E j \in FailedUnits(a)' :
                    /\ attempts[a].units[j].state = "pending"
                    /\ att.error = UnitError(att.units[j])
               /\ ErrorsOf(a)' = <<att.error>>
               /\ att.value = None]_vars
\* terminate() of the first worker of a pool of two threw in the cleanup of a
\* solve of three challenges: the second worker is terminated all the same and
\* the call resolved to the redeemed token
C32_Witness ==
  \E a \in AttemptIds :
    /\ attempts[a].broken = {1}
    /\ attempts[a].logged = {1}
    /\ attempts[a].tried = {1, 2}
    /\ attempts[a].made = <<"live", "terminated">>
    /\ attempts[a].results = <<101, 102, 103>>
    /\ attempts[a].phase = "done" /\ attempts[a].value # None
    /\ \E c \in CallIds : calls[c].att = a /\ calls[c].result = attempts[a].value

\* C33: an attempt whose challenge request was answered with a non-OK response
\* has failed: it created no worker and sent no redeem request, the error
\* callback was invoked for it, and its outcome is absent.
C33_ChallengeNotOk ==
  \A a \in AttemptIds :
    attempts[a].challengeOk = Some(FALSE) =>
      /\ attempts[a].made = <<>>
      /\ attempts[a].posted = <<>>
      /\ attempts[a].redeems = 0
      /\ attempts[a].phase \in {"settling", "done"}
      /\ Cardinality(ErrorCallsOf(a)) = 1
      /\ attempts[a].value = None

\* the string a {found: false} response carries for a thrown value
ErrorString(thrown) ==
  CASE thrown = ErrorValue("Solve POW failed") -> "Solve POW failed"
    [] thrown = StringValue("String error message") -> "String error message"
    [] thrown = ObjectValue -> "[object Object]"

\* C34: worker boundary protocol. A request whose handling has ended has got
\* exactly one response, and one still being handled none: {nonce, found: true}
\* when the solver returned, {found: false, error} with the thrown value's
\* string when the solver threw, on the accelerated and on the fallback path;
\* no exception escapes the handler. wasmModule() is called at most once per
\* worker, and once it has failed (or when WebAssembly is missing) every
\* request is served by the fallback solver.
C34_WorkerProtocol ==
  /\ wk.inits <= 1
  /\ wk.initFailed => wk.inits = 1 /\ wk.solver = "unset"
  /\ ~wk.supported => wk.inits = 0 /\ wk.solver = "unset"
  /\ \A r \in DOMAIN wk.requests :
       LET q == wk.requests[r] IN
       /\ ~q.escaped
       /\ q.state # "done" => q.responses = <<>>
       /\ q.state = "done" =>
            /\ Len(q.responses) = 1
            /\ q.responses[1].found <=> q.thrown = None
            /\ q.responses[1].found => q.responses[1].nonce = NonceFor(r)
            /\ ~q.responses[1].found =>
                 q.responses[1].error = ErrorString(q.thrown[1])
            /\ q.path \in {"wasm", "fallback"}
       /\ wk.initFailed \/ ~wk.supported => q.path # "wasm"
       /\ q.state = "fallback" => q.path = "fallback"
\* a worker whose initialisation failed has served three requests by the
\* fallback solver, one with a nonce, one with an Error's message and one with
\* the string of a thrown object
C34_Witness ==
  /\ wk.supported /\ wk.initFailed /\ wk.inits = 1
  /\ Len(wk.requests) = 3
  /\ \A r \in 1..3 : wk.requests[r].state = "done" /\ wk.requests[r].path = "fallback"
  /\ wk.requests[1].responses[1].found
  /\ wk.requests[2].responses = <<[found |-> FALSE, nonce |-> 0, duration |-> FALSE,
                                   error |-> "Solve POW failed"]>>
  /\ wk.requests[3].responses[1].error = "[object Object]"

\* C35: a reset (or cancelRefresh) made while a solve of the key is in flight
\* leaves that solve as it is and in the solving map; and when a solve that
\* was in flight at a reset succeeds, the step in which its token arrives
\* stores the token under the key (if the initiating context has
\* localStorageEnabled) and invokes onSolve with it, and the step after onSolve
\* arms a refresh timer for the key (if the context has refreshAutomatically).
C35_ResetKeepsSolve ==
  [][\A a \in AttemptIds :
       LET c == attempts[a].ctx
           k == attempts[a].key
       IN /\ ~attempts[a].reset /\ attempts'[a].reset =>
               /\ attempts'[a] = [attempts[a] EXCEPT !.reset = TRUE]
               /\ attempts[a].phase # "done"
               /\ solving[k] = a /\ solving'[k] = a
               /\ refreshTimeouts'[k] = 0
          /\ attempts[a].reset /\ attempts[a].phase = "redeemBody"
             /\ attempts'[a].phase # "redeemBody" =>
               /\ attempts'[a].phase = "onSolve" /\ attempts'[a].value # None
               /\ calls[c].localStorageEnabled =>
                    storage'[k] = Stringify(attempts'[a].value[1])
               /\ SolvedOf(a)' = <<attempts'[a].value[1]>>
          /\ attempts[a].reset /\ attempts[a].phase = "onSolve"
             /\ attempts'[a].phase # "onSolve"
             /\ calls[c].refreshAutomatically =>
                 /\ attempts'[a].phase = "settling"
                 /\ refreshTimeouts'[k] # 0
                 /\ timers'[refreshTimeouts'[k]].state = "armed"
                 /\ timers'[refreshTimeouts'[k]].by = a]_vars
\* a reset removed the stored token and cancelled the timer of an earlier solve
\* while a later solve was in flight; that solve succeeded, and the key has a
\* stored token and an armed timer again
C35_Witness ==
  \E a \in AttemptIds :
    /\ attempts[a].reset /\ attempts[a].phase = "done" /\ attempts[a].value # None
    /\ calls[attempts[a].ctx].localStorageEnabled
    /\ calls[attempts[a].ctx].refreshAutomatically
    /\ storage[attempts[a].key] = Stringify(attempts[a].value[1])
    /\ Cardinality(SolveCallsOf(a)) = 1
    /\ refreshTimeouts[attempts[a].key] # 0
    /\ timers[refreshTimeouts[attempts[a].key]].by = a
    /\ timers[refreshTimeouts[attempts[a].key]].state = "armed"
    /\ \E tm \in DOMAIN timers : timers[tm].state = "cleared"

\* the calls that joined attempt a: they hold its promise and did not start it
Joiners(a) == {c \in CallIds : calls[c].att = a /\ attempts[a].ctx # c}

\* C36: a call that joined an in-flight attempt has had none of its callbacks
\* invoked (onSolve, onError, onProgress), and every callback invoked for the
\* attempt is the initiating context's. The pool of the attempt has the
\* initiating context's workersCount; the step in which the token arrives
\* stores it if and only if the initiating context has localStorageEnabled, and
\* the attempt schedules a refresh if and only if the initiating context has
\* refreshAutomatically, whatever the joiners' settings.
C36_InitiatorGoverns ==
  [][\A a \in AttemptIds :
       LET c == attempts[a].ctx
           k == attempts[a].key
       IN /\ \A d \in Joiners(a)' :
               /\ calls'[d].solved = <<>>
               /\ calls'[d].errors = <<>>
               /\ calls'[d].progress = <<>>
               /\ \A tm \in DOMAIN timers' : timers'[tm].ctx # d
          /\ \A e \in ErrorCallsOf(a)' \cup SolveCallsOf(a)' : e[1] = c
          /\ attempts'[a].workersCount = calls[c].workersCount[1]
          /\ attempts'[a].made # <<>> =>
               Len(attempts'[a].made) = calls[c].workersCount[1]
          /\ attempts[a].phase = "redeemBody" /\ attempts'[a].phase = "onSolve" =>
               storage' = IF calls[c].localStorageEnabled
                          THEN [storage EXCEPT ![k] = Stringify(attempts'[a].value[1])]
                          ELSE storage
          /\ attempts[a].phase = "onSolve" /\ attempts'[a].phase = "settling" =>
               IF calls[c].refreshAutomatically
               THEN /\ refreshTimeouts'[k] # 0
                    /\ timers'[refreshTimeouts'[k]].by = a
                    /\ timers'[refreshTimeouts'[k]].ctx = c
               ELSE timers' = timers /\ refreshTimeouts' = refreshTimeouts]_vars
\* an attempt started by a context without cache and refresh and with one
\* worker was joined by a caching, refreshing call asking for two workers:
\* the token was not stored, no timer was armed, one worker was made, the
\* joiner got the token and none of its callbacks ran
C36_Witness ==
  \E a \in AttemptIds : \E d \in Joiners(a) :
    /\ attempts[a].phase = "done" /\ attempts[a].value # None
    /\ ~calls[attempts[a].ctx].localStorageEnabled
    /\ ~calls[attempts[a].ctx].refreshAutomatically
    /\ calls[attempts[a].ctx].workersCount = Some(1)
    /\ calls[d].localStorageEnabled /\ calls[d].refreshAutomatically
    /\ calls[d].workersCount = Some(2)
    /\ storage[attempts[a].key] = RawNone
    /\ timers = <<>>
    /\ Len(attempts[a].made) = 1
    /\ calls[d].result = attempts[a].value
    /\ calls[d].solved = <<>> /\ calls[d].progress = <<>>
    /\ Len(calls[attempts[a].ctx].progress) = 3

\* the attempts of key k whose success or error callback is running
InCallback(k) ==
  {a \in AttemptIds : attempts[a].key = k /\ attempts[a].cb # "none"}

\* C37: while onSolve or onError of an attempt runs, the attempt is still the
\* entry of its key in the solving map; a getCapToken call for the key made
\* then that misses the cache joins that attempt: no attempt is started (no
\* challenge fetch), and when the attempt settles the call gets its outcome.
\* An attempt is started for a key only when the key has no entry and no
\* unsettled attempt.
C37_CallbacksBeforeRemoval ==
  [][/\ \A k \in Keys : \A a \in InCallback(k) : solving[k] = a
     /\ Len(calls') = Len(calls) + 1 =>
          LET d == Len(calls')
              k == calls'[d].key
          IN InCallback(k) # {} /\ ~calls'[d].hit =>
               /\ calls'[d].att \in InCallback(k)
               /\ attempts' = attempts
               /\ solving' = solving
               /\ calls'[d].status = "pending"
     /\ \A a \in AttemptIds :
          attempts[a].phase = "settling" /\ attempts'[a].phase = "done" =>
            \A d \in CallIds :
              calls[d].att = a =>
                /\ calls'[d].status = "resolved"
                /\ calls'[d].result = attempts[a].value
     /\ Len(attempts') > Len(attempts) =>
          LET k == attempts'[Len(attempts')].key
          IN /\ solving[k] = 0
             /\ InFlight(k) = {}
             /\ InCallback(k) = {}]_vars
\* a caching call made from inside onSolve read the token the attempt had just
\* stored, which was already within the expiry buffer, so it missed the cache;
\* it joined the attempt and resolved to its token, and no other attempt exists
C37_Witness ==
  \E a \in AttemptIds : \E d \in CallIds :
    /\ attempts[a].phase = "done" /\ attempts[a].value # None
    /\ calls[d].localStorageEnabled /\ ~calls[d].hit
    /\ calls[d].seen = Stringify(attempts[a].value[1])
    /\ calls[d].att = a /\ attempts[a].ctx # d
    /\ calls[d].status = "resolved" /\ calls[d].result = attempts[a].value
    /\ ~calls[attempts[a].ctx].refreshAutomatically
    /\ ErrorsOf(a) = <<>>
    /\ Len(attempts) = 1

\* attempt a was started by a refresh timer and has failed
FailedRefresh(a) ==
  attempts[a].origin = "refresh" /\ attempts[a].error # ""
  /\ attempts[a].phase \in {"settling", "done"}

\* C38: a failed refresh ends the chain. The step in which a solve started by
\* a refresh timer fails invokes the error callback once, with the failure's
\* message, and changes neither the store nor the timers (a timer armed for
\* the key at that moment is one a getCapToken call armed on a cache hit); no
\* step of an attempt that has no token changes the store; the failed attempt
\* has armed no timer;
\* and once it has settled with no timer armed for the key, the key stays
\* without timer and without solve (no attempt is started, no timer is armed)
\* through every step that is not a getCapToken call for the key.
C38_FailedRefreshEnds ==
  [][/\ \A a \in DOMAIN attempts' :
          FailedRefresh(a)' =>
            /\ \A tm \in DOMAIN timers' : timers'[tm].by # a
            /\ Cardinality(ErrorCallsOf(a)') = 1
     /\ \A a \in AttemptIds :
          LET k == attempts[a].key IN
          /\ attempts[a].origin = "refresh"
             /\ attempts[a].error = "" /\ attempts'[a].error # "" =>
               /\ ErrorsOf(a) = <<>>
               /\ ErrorsOf(a)' = <<attempts'[a].error>>
               /\ attempts'[a].value = None
               /\ storage' = storage
               /\ timers' = timers /\ refreshTimeouts' = refreshTimeouts
               /\ \A tm \in LiveTimers(k) :
                    timers[tm].by = 0 /\ calls[timers[tm].ctx].hit
          /\ attempts'[a] # attempts[a] /\ attempts'[a].value = None =>
               storage' = storage
          /\ /\ FailedRefresh(a) /\ AtRest(k)
             /\ ~(Len(calls') = Len(calls) + 1 /\ calls'[Len(calls')].key = k)
             => /\ AtRest(k)'
                /\ timers' = timers
                /\ Len(attempts') = Len(attempts)
                /\ storage'[k] = storage[k]
                /\ SolvedFor(k)' = SolvedFor(k)]_vars
\* the token of a first solve is stored and its timer fired; the refresh solve
\* failed at the redeem request: one error report, the stored token in place,
\* no timer armed and no solve in flight, and time has passed since
C38_Witness ==
  \E a, b \in AttemptIds :
    /\ attempts[a].phase = "done" /\ attempts[a].value # None
    /\ attempts[b].origin = "refresh" /\ attempts[b].phase = "done"
    /\ attempts[b].error = "Failed to redeem token"
    /\ ErrorsOf(b) = <<"Failed to redeem token">>
    /\ storage[attempts[b].key] = Stringify(attempts[a].value[1])
    /\ \E tm \in TimersBy(attempts[a].ctx, a) : timers[tm].state = "fired"
    /\ AtRest(attempts[b].key)
    /\ ticks = MaxTicks

\* C39: in every state the completed count of a solveChallenges call is
\* between 0 and the number of challenges and is the number of challenges that
\* have succeeded, each counted once: the challenges of the chunks that are
\* through and the resolved units of the current chunk; one progress value has
\* been reported per success, the n-th being round(n / total * 100), plus the
\* 100 of the redeem response, and every reported value is in 0..100.
C39_CompletedBounds ==
  \A a \in AttemptIds :
    LET att == attempts[a]
        total == Len(att.challenges)
        p == ProgressOf(a)
        succeeded == {att.units[j].ch : j \in {x \in DOMAIN att.units :
                                                att.units[x].state = "resolved"}}
                     \cup 1..Len(att.results)
    IN /\ 0 <= att.completed /\ att.completed <= total
       /\ att.completed = Cardinality(succeeded)
       /\ att.completed = Len(att.completedOrder)
       /\ Range(att.completedOrder) = succeeded
       /\ Len(p) = att.completed + (IF att.response # None THEN 1 ELSE 0)
       /\ \A n \in 1..att.completed :
            /\ 200 * n - total <= 2 * total * p[n]
            /\ 2 * total * p[n] <= 200 * n + total
       /\ \A n \in DOMAIN p : p[n] >= 0 /\ p[n] <= 100
\* two workers, three challenges: both units of the first chunk succeeded, the
\* unit of the second chunk faulted; completed is 2 of 3 and 33 and 67 were
\* reported
C39_Witness ==
  \E a \in AttemptIds :
    /\ Len(attempts[a].challenges) = 3
    /\ attempts[a].workersCount = 2
    /\ attempts[a].completed = 2
    /\ attempts[a].outcome = "rejected"
    /\ attempts[a].phase = "done"
    /\ ProgressOf(a) = <<33, 67>>
    /\ \E j \in DOMAIN attempts[a].units : attempts[a].units[j].fault # None

\* the refresh rule's window: startRefresh(context, expires) run at time t may
\* schedule when the delay expires - t - EXPIRES_BUFFER_IN_MS is above 0 and
\* below one day
Schedulable(expires, t) ==
  LET delay == expires - t - EXPIRES_BUFFER_IN_MS IN 0 < delay /\ delay < ONE_DAY_IN_MS
\* one "Invalid expiration time" report to the context of call c while handling
\* a, and no timer armed by it
ReportedInvalid(c, a) == Cardinality(InvalidBy(c, a)) = 1 /\ TimersBy(c, a) = {}
\* a cache hit of a refreshing caller whose token's expiry is outside the
\* window: the error is reported, no timer is armed, the call resolves to the
\* token
InvalidExpiryOnHit ==
  \A c \in CallIds :
    /\ calls[c].hit /\ calls[c].refreshAutomatically
    /\ ~Schedulable(calls[c].result[1].expires, calls[c].at)
    => /\ ReportedInvalid(c, 0)
       /\ calls[c].status = "resolved"
       /\ GetLocalStorageItem(calls[c].seen, calls[c].at) = calls[c].result
\* a freshly redeemed token of a refreshing context whose expiry is outside
\* the window: onSolve got the token, it was persisted when the context uses
\* the cache, the error is reported, no timer is armed, and every call waiting
\* for the attempt resolves to the token
InvalidExpiryOnFresh ==
  \A a \in AttemptIds :
    LET c == attempts[a].ctx IN
    /\ attempts[a].value # None
    /\ attempts[a].phase \in {"settling", "done"}
    /\ calls[c].refreshAutomatically
    => \A i \in DOMAIN calls[c].solved :
         /\ calls[c].solved[i].att = a
         /\ ~Schedulable(attempts[a].value[1].expires, calls[c].solved[i].at)
         => /\ calls[c].solved[i].token = attempts[a].value[1]
            /\ ReportedInvalid(c, a)
            /\ attempts[a].phase = "settling" /\ calls[c].localStorageEnabled
               => storage[attempts[a].key] = Stringify(attempts[a].value[1])
            /\ attempts[a].phase = "done"
               => \A d \in CallIds :
                    calls[d].att = a => /\ calls[d].status = "resolved"
                                        /\ calls[d].result = attempts[a].value
\* every cache hit of a refreshing caller on a token valid for one day or more
\* reports the error
LongLivedHitReports ==
  \A c \in CallIds :
    /\ calls[c].hit /\ calls[c].refreshAutomatically
    /\ calls[c].result[1].expires - calls[c].at >= ONE_DAY_IN_MS
    => Cardinality(InvalidBy(c, 0)) = 1

\* C40: with refreshAutomatically, a token whose expiry is outside the
\* schedulable window (cached, or freshly redeemed) gets "Invalid expiration
\* time" reported and no timer armed, and getCapToken still resolves to the
\* token, a fresh token having been handed to onSolve and persisted; and every
\* cache hit on a token valid for one day or more reports the error.
C40_InvalidExpiryHarmless ==
  /\ InvalidExpiryOnHit
  /\ InvalidExpiryOnFresh
  /\ LongLivedHitReports

============================================================================
